---- MODULE Spec2Model ----
(***************************************************************************)
(* Navigation / announcement state machine of useScreenReaderCore          *)
(* (src/src/hooks/useScreenReaderSimulator.ts, lines 1-761).               *)
(*                                                                         *)
(* The host document is a row of elements 1..MaxElems in document order.   *)
(* An element is attached ("in") or removed ("gone"); a removed element    *)
(* never comes back.  The cursor is 0-based as in the code, sequences are  *)
(* 1-based, so node i of a snapshot s is s[i + 1].                         *)
(***************************************************************************)
EXTENDS Integers, Sequences, FiniteSets, TLC

\* ---------------------------------------------------------------- bounds
MaxElems == 3
MaxEmit == 1
MaxOrphans == 1
MaxAlerts == 2
MaxValueLen == 1
GateDepth == 2

\* mutation records in one batch handed to the observer callback
MaxBatch == 2

\* ------------------------------------------------------ program constants
LogCap == 50
NoIndex == -1

Elems == 1..MaxElems
\* document.body, and a focusable control of the simulator's own panel, which
\* sits in an aria-hidden container and so is never part of a snapshot
Body == 0
Hud == -1
NoTask == [el |-> 0, index |-> NoIndex, muted |-> FALSE]
NoTimer == [el |-> 0, muted |-> FALSE]
NoProbe == [arg |-> << >>, done |-> FALSE, out |-> << >>]

\* ------------------------------------------------------------- the page
\* Three kinds of element repeat along the document: heading, button, input.
KindOf(e) == (e - 1) % 3

TagOf(e) ==
  CASE e = Hud -> "BUTTON"
    [] e = Body -> "BODY"
    [] KindOf(e) = 0 -> "H2"
    [] KindOf(e) = 1 -> "BUTTON"
    [] OTHER -> "INPUT"

NameOf(e) ==
  CASE KindOf(e) = 0 -> "Title " \o ToString(e)
    [] KindOf(e) = 1 -> "Add " \o ToString(e)
    [] OTHER -> "Email " \o ToString(e)

computeRole(e) ==
  CASE TagOf(e) = "H2" -> "heading"
    [] TagOf(e) = "BUTTON" -> "button"
    [] OTHER -> "textbox"

ROLE_MAP(role) ==
  CASE role = "radio" -> "radio button"
    [] role = "switch" -> "toggle button"
    [] role = "combobox" -> "combo box"
    [] role = "listitem" -> "list item"
    [] role = "img" -> "image"
    [] OTHER -> role

Capitalize(s) ==
  CASE s = "button" -> "Button"
    [] s = "textbox" -> "Textbox"
    [] s = "heading" -> "Heading"
    [] s = "link" -> "Link"
    [] s = "checkbox" -> "Checkbox"
    [] s = "radio button" -> "Radio button"
    [] s = "toggle button" -> "Toggle button"
    [] OTHER -> s

\* --------------------------------------------------- announcement format
RECURSIVE JoinParts(_)
JoinParts(parts) ==
  IF parts = << >> THEN ""
  ELSE IF Len(parts) = 1 THEN parts[1]
  ELSE parts[1] \o ", " \o JoinParts(Tail(parts))

\* /checked|unchecked|selected/.test(s), over the state labels the
\* classifier can produce.
IsCheckLabel(s) ==
  s \in {"checked", "unchecked", "partially checked", "selected"}

\* /checked|unchecked|selected|invalid/.test(s)
IsCheckOrInvalidLabel(s) == IsCheckLabel(s) \/ s = "invalid"

\* node.states.find(...): the first check label, as a list of 0 or 1 parts
FindCheckState(seq) ==
  LET hits == { i \in 1..Len(seq) : IsCheckLabel(seq[i]) }
  IN  IF hits = {} THEN << >>
      ELSE << seq[CHOOSE i \in hits : \A j \in hits : i <= j] >>

\* parseInt(tagName.substring(1), 10); -1 stands for NaN.
TagLevel(tag) ==
  CASE tag = "H1" -> 1 [] tag = "H2" -> 2 [] tag = "H3" -> 3
    [] tag = "H4" -> 4 [] tag = "H5" -> 5 [] tag = "H6" -> 6
    [] OTHER -> -1

\* formatAnnouncement with the quoted name put before the check state
formatAnnouncementNameFirst(node, el) ==
  LET checkPart ==
        IF node.role \in {"checkbox", "radio button", "switch"}
        THEN FindCheckState(node.states)
        ELSE << >>
      namePart ==
        IF node.name # "" THEN << "\"" \o node.name \o "\"" >> ELSE << >>
      level == IF el.ariaLevel # 0 THEN el.ariaLevel ELSE TagLevel(el.tag)
      rolePart ==
        IF node.role # "" /\ node.role # "statictext"
        THEN IF node.role = "heading"
             THEN << "Heading" \o
                     (IF level # -1 THEN " level " \o ToString(level) ELSE "") >>
             ELSE << Capitalize(ROLE_MAP(node.role)) >>
        ELSE << >>
      descPart ==
        IF node.description # "" THEN << node.description >> ELSE << >>
      valuePart ==
        IF node.role \in {"textbox", "combobox"}
        THEN IF el.type = "password" THEN << "Password field" >>
             ELSE IF el.value # "" THEN << "Value: " \o el.value >>
             ELSE IF el.placeholder # "" THEN << el.placeholder >>
             ELSE << >>
        ELSE << >>
      errorPart ==
        IF \E i \in 1..Len(node.states) : node.states[i] = "invalid"
        THEN IF el.validationMessage # ""
             THEN << "Error: " \o el.validationMessage >>
             ELSE IF el.errorText # "" THEN << "Error: " \o el.errorText >>
             ELSE << >>
        ELSE << >>
      otherStates ==
        SelectSeq(node.states, LAMBDA s : ~IsCheckOrInvalidLabel(s))
      otherPart ==
        IF otherStates # << >> THEN << JoinParts(otherStates) >> ELSE << >>
      coordPart ==
        IF node.coords # << >>
        THEN << "row " \o ToString(node.coords[1]) \o ", col "
                \o ToString(node.coords[2]) >>
        ELSE << >>
  IN  JoinParts(namePart \o checkPart \o rolePart \o descPart \o valuePart
                \o errorPart \o otherPart \o coordPart)

\* node: the AccNode; el: the properties read from node.el at call time
\* (tag, ariaLevel (0 = no attribute), type, value, placeholder,
\* validationMessage, errorText).
formatAnnouncement(node, el) ==
  LET checkPart ==
        IF node.role \in {"checkbox", "radio button", "switch"}
        THEN FindCheckState(node.states)
        ELSE << >>
      namePart ==
        IF node.name # "" THEN << "\"" \o node.name \o "\"" >> ELSE << >>
      level == IF el.ariaLevel # 0 THEN el.ariaLevel ELSE TagLevel(el.tag)
      rolePart ==
        IF node.role # "" /\ node.role # "statictext"
        THEN IF node.role = "heading"
             THEN << "Heading" \o
                     (IF level # -1 THEN " level " \o ToString(level) ELSE "") >>
             ELSE << Capitalize(ROLE_MAP(node.role)) >>
        ELSE << >>
      descPart ==
        IF node.description # "" THEN << node.description >> ELSE << >>
      valuePart ==
        IF node.role \in {"textbox", "combobox"}
        THEN IF el.type = "password" THEN << "Password field" >>
             ELSE IF el.value # "" THEN << "Value: " \o el.value >>
             ELSE IF el.placeholder # "" THEN << el.placeholder >>
             ELSE << >>
        ELSE << >>
      errorPart ==
        IF \E i \in 1..Len(node.states) : node.states[i] = "invalid"
        THEN IF el.validationMessage # ""
             THEN << "Error: " \o el.validationMessage >>
             ELSE IF el.errorText # "" THEN << "Error: " \o el.errorText >>
             ELSE << >>
        ELSE << >>
      otherStates ==
        SelectSeq(node.states, LAMBDA s : ~IsCheckOrInvalidLabel(s))
      otherPart ==
        IF otherStates # << >> THEN << JoinParts(otherStates) >> ELSE << >>
      coordPart ==
        IF node.coords # << >>
        THEN << "row " \o ToString(node.coords[1]) \o ", col "
                \o ToString(node.coords[2]) >>
        ELSE << >>
  IN  JoinParts(checkPart \o namePart \o rolePart \o descPart \o valuePart
                \o errorPart \o otherPart \o coordPart)

\* ------------------------------------------------- state classification
\* An element as the classifiers read it: tag, input type, and the
\* attributes and native properties they test.  "null" is an absent
\* attribute.
PlainEl(tag, type) ==
  [ tag |-> tag, type |-> type, roleAttr |-> "null",
    ariaDisabled |-> "null", disabled |-> FALSE,
    ariaChecked |-> "null", checked |-> FALSE, selected |-> FALSE,
    ariaPressed |-> "null", ariaSelected |-> "null",
    ariaExpanded |-> "null", ariaInvalid |-> "null", invalid |-> FALSE,
    ariaLevel |-> "null", ariaSort |-> "null", ariaOrientation |-> "null",
    ariaRequired |-> "null", required |-> FALSE,
    ariaReadonly |-> "null", readOnly |-> FALSE ]

Includes(seq, x) == \E i \in 1..Len(seq) : seq[i] = x

\* if (cond) states.push(label)
When(cond, label) == IF cond THEN << label >> ELSE << >>

\* getRole of dom-accessibility-api: the role attribute, else the role the
\* tag implies
RoleOf(el) ==
  IF el.roleAttr # "null" THEN el.roleAttr
  ELSE CASE el.tag = "INPUT" /\ el.type = "checkbox" -> "checkbox"
         [] el.tag = "INPUT" /\ el.type = "radio" -> "radio"
         [] el.tag = "INPUT" -> "textbox"
         [] el.tag = "BUTTON" -> "button"
         [] TagLevel(el.tag) # -1 -> "heading"
         [] OTHER -> "generic"

isDisableable(el) ==
  el.tag \in { "BUTTON", "INPUT", "SELECT", "TEXTAREA", "OPTGROUP", "OPTION",
               "FIELDSET" }

\* Demo.tsx, Checked / Selected, with the two tests of the chain run
\* independently of each other
DemoCheckedBoth(el, role) ==
  LET nativeChecked == IF el.tag = "INPUT"
                       THEN (IF el.checked THEN "true" ELSE "false")
                       ELSE "null"
  IN  When(el.ariaChecked = "true" \/ nativeChecked = "true", "checked")
      \o When((el.ariaChecked = "false" \/ nativeChecked = "false")
                 /\ role \in { "checkbox", "radio", "switch" }, "unchecked")

\* Demo.tsx, computeStates: Checked / Selected
DemoChecked(el, role) ==
  LET nativeChecked == IF el.tag = "INPUT"
                       THEN (IF el.checked THEN "true" ELSE "false")
                       ELSE "null"
  IN  IF el.ariaChecked = "true" \/ nativeChecked = "true"
      THEN << "checked" >>
      ELSE IF (el.ariaChecked = "false" \/ nativeChecked = "false")
                /\ role \in { "checkbox", "radio", "switch" }
           THEN << "unchecked" >>
           ELSE When(el.ariaChecked = "mixed", "partially checked")

\* Demo.tsx, computeStates(el, role)
DemoComputeStates(el, role) ==
  When(el.ariaDisabled = "true" \/ (isDisableable(el) /\ el.disabled),
       "disabled")
  \o DemoChecked(el, role)
  \o When(el.ariaPressed = "true", "pressed")
  \o When(el.ariaSelected = "true", "selected")
  \o When(el.ariaExpanded = "true", "expanded")
  \o When(el.ariaExpanded = "false", "collapsed")
  \o When(el.ariaInvalid = "true" \/ (el.tag = "INPUT" /\ el.invalid),
          "invalid")
  \o (IF role \in { "columnheader", "rowheader" }
         /\ el.ariaSort \notin { "null", "", "none" }
      THEN << "sort " \o el.ariaSort >> ELSE << >>)
  \o (IF role \in { "slider", "scrollbar", "separator", "tablist", "toolbar" }
         /\ el.ariaOrientation \notin { "null", "" }
      THEN << el.ariaOrientation >> ELSE << >>)
  \o When(el.ariaRequired = "true" \/ (el.tag = "INPUT" /\ el.required),
          "required")
  \o When(el.ariaReadonly = "true" \/ (el.tag = "INPUT" /\ el.readOnly),
          "readonly")

\* a11y-engine.ts, computeStates: Checked
EngineChecked(el) ==
  LET role == RoleOf(el)
      checked == IF el.ariaChecked \notin { "null", "" } THEN el.ariaChecked
                 ELSE IF el.tag = "INPUT"
                      THEN (IF el.checked THEN "true" ELSE "false")
                      ELSE "null"
  IN  IF checked = "true" THEN << "checked" >>
      ELSE IF checked = "false" /\ role \in { "checkbox", "radio" }
           THEN << "unchecked" >>
           ELSE When(checked = "mixed", "partially checked")

\* a11y-engine.ts, computeStates: Level
EngineLevel(el) ==
  LET role == RoleOf(el)
  IN  IF role \in { "heading", "treeitem", "row" }
      THEN IF el.ariaLevel \notin { "null", "" }
           THEN << "level " \o el.ariaLevel >>
           ELSE IF role = "heading" /\ TagLevel(el.tag) # -1
                THEN << "level " \o ToString(TagLevel(el.tag)) >>
                ELSE << >>
      ELSE << >>

\* a11y-engine.ts, computeStates(el)
EngineComputeStates(el) ==
  LET role == RoleOf(el)
  IN  When(el.ariaDisabled = "true" \/ el.disabled, "disabled")
      \o EngineChecked(el)
      \o When(el.ariaPressed = "true", "pressed")
      \o When(el.ariaSelected = "true", "selected")
      \o When(el.ariaExpanded = "true", "expanded")
      \o When(el.ariaExpanded = "false", "collapsed")
      \o When(el.ariaInvalid = "true" \/ el.invalid, "invalid")
      \o EngineLevel(el)
      \o (IF role \in { "slider", "scrollbar", "separator", "tablist",
                        "toolbar" }
             /\ el.ariaOrientation \notin { "null", "" }
          THEN << el.ariaOrientation >> ELSE << >>)
      \o (IF role \in { "columnheader", "rowheader" }
             /\ el.ariaSort \notin { "null", "", "none" }
          THEN << "sort " \o el.ariaSort >> ELSE << >>)
      \o When(el.ariaRequired = "true" \/ el.required, "required")
      \o When(el.ariaReadonly = "true" \/ el.readOnly, "read only")

\* utils.ts, computeStates(el)
UtilsComputeStates(el) ==
  When(el.ariaDisabled = "true" \/ (isDisableable(el) /\ el.disabled),
       "disabled")
  \o (IF el.ariaChecked # "null"
      THEN << IF el.ariaChecked = "true" THEN "checked" ELSE "unchecked" >>
      ELSE IF el.tag = "INPUT" /\ el.type \in { "checkbox", "radio" }
           THEN << IF el.checked THEN "checked" ELSE "unchecked" >>
           ELSE When(el.tag = "OPTION" /\ el.selected, "selected"))
  \o (IF el.ariaPressed # "null"
      THEN << IF el.ariaPressed = "true" THEN "pressed" ELSE "not pressed" >>
      ELSE << >>)
  \o (IF el.ariaExpanded # "null"
      THEN << IF el.ariaExpanded = "true" THEN "expanded" ELSE "collapsed" >>
      ELSE << >>)
  \o When(el.ariaRequired = "true"
            \/ (el.tag \in { "INPUT", "TEXTAREA", "SELECT" } /\ el.required),
          "required")
  \o When(el.ariaReadonly = "true"
            \/ (el.tag \in { "INPUT", "TEXTAREA" } /\ el.readOnly),
          "readonly")

\* an element of the page as the classifiers read it: no ARIA attribute,
\* the inputs are text fields
PageEl(e) == PlainEl(TagOf(e), IF TagOf(e) = "INPUT" THEN "text" ELSE "")

computeStates(e) == UtilsComputeStates(PageEl(e))

\* ------------------------------------------------------------------ state
VARIABLES
  doc,       \* host document: element -> "in" | "gone"
  active,    \* document.activeElement (Body when nothing is focused)
  ring,      \* elements of the document whose classList holds "srs-focus-ring"
  value,     \* element -> characters of its value (inputs only)
  liveText,  \* text content of the page's aria-live="polite" region
  nodes,     \* useLiveTree: the current snapshot
  index,     \* useScreenReaderCore: the cursor
  enabled,   \* the enabled option
  muted,     \* useSpeech: muted
  unlocked,  \* useSpeech: unlocked (starts true, nothing resets it)
  log,       \* useScreenReaderCore: log, most recent first
  speech,    \* utterances queued in window.speechSynthesis
  timer,     \* the rebuild timeout of the current effect instance is pending
  orphans,   \* pending rebuild timeouts left behind by earlier effect instances
  alerts,    \* pending live-region settle timeouts (the muted flag each captured)
  typing,    \* typingDebounce: the pending value announcement, or NoTimer
  micro,     \* the microtask queued by activateOrFocus, or NoTask
  emitted,   \* number of narrate calls since the log was last cleared
  said,      \* phrases handed to the speech device by the last step
  lastOp     \* the last operation of the engine's interface that got past
             \* its guards ("other" for one that returned early and for a
             \* step of the host, a timer or a setting), and its argument
             \* or the value it started from (moveTo: i; focus, microtask:
             \* the cursor it read; escape: length of the speech queue)
  , hasObserver \* the host has a MutationObserver constructor
  , mounted     \* the component using the hook is mounted (an error thrown
                \* by an effect unmounts it)
  , probe       \* a helper under study outside the running engine: its
                \* argument, whether it has been applied, and its result
  , inputType   \* the type attribute of the page's input elements

vars == << doc, active, ring, value, liveText, nodes, index, enabled, muted,
           unlocked, log, speech, timer, orphans, alerts, typing, micro,
           emitted, said, lastOp, hasObserver, mounted, probe,
           inputType >>

\* ---------------------------------------------------------------- helpers
Op(name, arg) == [op |-> name, arg |-> arg]

Min(a, b) == IF a < b THEN a ELSE b
Max(a, b) == IF a > b THEN a ELSE b
Take(s, n) == SubSeq(s, 1, Min(n, Len(s)))

InDoc(d) == { e \in Elems : d[e] = "in" }

\* nodes[i] is defined (0-based i)
HasNode(s, i) == i >= 0 /\ i < Len(s)
NodeAt(s, i) == s[i + 1]

\* an identity test that never matches
FindIndexOfElNever(s, el) == -1

\* Array.prototype.findIndex((n) => n.el === el): first index or -1
FindIndexOfEl(s, el) ==
  LET hits == { i \in 0..(Len(s) - 1) : s[i + 1].el = el }
  IN  IF hits = {} THEN -1 ELSE CHOOSE i \in hits : \A j \in hits : i <= j

RECURSIVE ValueText(_)
ValueText(chars) ==
  IF chars = << >> THEN "" ELSE chars[1] \o ValueText(Tail(chars))

\* el.value || undefined for an input ("" stands for undefined)
computeValue(e, v) == IF TagOf(e) = "INPUT" THEN ValueText(v[e]) ELSE ""

\* Properties formatAnnouncement reads from node.el
ElProps(e, v) ==
  [ tag |-> TagOf(e), ariaLevel |-> 0, type |-> inputType,
    value |-> ValueText(v[e]), placeholder |-> "",
    validationMessage |-> "", errorText |-> "" ]

MakeNode(e, v) ==
  [ el |-> e, role |-> computeRole(e), name |-> NameOf(e),
    description |-> "", states |-> computeStates(e),
    value |-> computeValue(e, v), coords |-> << >> ]

\* The reportable elements of the document, in document order.
RECURSIVE CollectFrom(_, _, _)
CollectFrom(d, v, e) ==
  IF e > MaxElems THEN << >>
  ELSE (IF d[e] = "in" THEN << MakeNode(e, v) >> ELSE << >>)
       \o CollectFrom(d, v, e + 1)

collectAccTree(d, v) == CollectFrom(d, v, 1)

\* liveNode of focusAt / activateOrFocus, then formatAnnouncement
Announcement(node, v) ==
  formatAnnouncement([node EXCEPT !.states = computeStates(node.el),
                                  !.value = computeValue(node.el, v)],
                     ElProps(node.el, v))

\* a cancel that leaves the queue alone
cancelKeepsQueue(q) == q

\* window.speechSynthesis.cancel()
cancel(q) == << >>

\* utils.speak: cancel first when interrupting, then queue the utterance
speak(q, text, interrupt) ==
  (IF interrupt THEN cancel(q) ELSE q) \o << text >>

\* the new phrase put behind the old ones
handleLogOldestFirst(l, text) == Take(l \o << text >>, LogCap)

\* handleLog
handleLog(l, text) == Take(<< text >> \o l, LogCap)

\* useSpeech.narrate with handleLog as onLog; m is the muted flag the calling
\* closure captured.
Narrate(text, m) ==
  /\ log' = handleLog(log, text)
  /\ emitted' = emitted + 1
  /\ IF unlocked /\ ~m
     THEN speech' = speak(speech, text, TRUE) /\ said' = << text >>
     ELSE speech' = speech /\ said' = << >>

Silent == UNCHANGED << log, emitted, speech >> /\ said' = << >>

CanEmit == emitted < MaxEmit

\* The MutationObserver exists while the effect ran with enabled = true; a
\* childList or class mutation in the document (re)schedules the rebuild.
Observed(changed) == timer' = (IF enabled /\ changed THEN TRUE ELSE timer)

Clamp(i, n) == Max(0, Min(n - 1, i))

\* querySelectorAll(".srs-focus-ring") ... remove, then classList.add on el
\* (an el that has left the document is no longer counted)
MoveRing(r, d, el) == { el } \cap InDoc(d)

\* focusAt without its setIndex
FocusAtBodyKeepsCursor(i) ==
  LET clamped == Clamp(i, Len(nodes))
      node == NodeAt(nodes, clamped)
  IN  /\ index' = index
      /\ ring' = MoveRing(ring, doc, node.el)
      /\ Observed(ring # {} \/ node.el \in InDoc(doc))
      /\ Narrate(Announcement(node, value), muted)

\* body of focusAt(i) once past its guard
FocusAtBody(i) ==
  LET clamped == Clamp(i, Len(nodes))
      node == NodeAt(nodes, clamped)
  IN  /\ index' = clamped
      /\ ring' = MoveRing(ring, doc, node.el)
      /\ Observed(ring # {} \/ node.el \in InDoc(doc))
      /\ Narrate(Announcement(node, value), muted)

\* focusAt that does not test enabled
focusAtWhileDisabled(i) ==
  IF nodes = << >>
  THEN UNCHANGED << index, ring, timer >> /\ Silent
  ELSE CanEmit /\ FocusAtBody(i)

focusAt(i) ==
  IF ~enabled \/ nodes = << >>
  THEN UNCHANGED << index, ring, timer >> /\ Silent
  ELSE CanEmit /\ FocusAtBody(i)

\* ROTOR_OPTIONS predicates reached from the keyboard ("h", "b")
SeekKinds == { "heading", "button" }
SeekPred(kind, n) == n.role = kind

\* seek's loop: first index from i in direction step whose node satisfies
\* the predicate, or -1 when the loop leaves [0, length)
RECURSIVE Scan(_, _, _, _)
Scan(s, i, step, kind) ==
  IF ~(i >= 0 /\ i < Len(s)) THEN -1
  ELSE IF SeekPred(kind, NodeAt(s, i)) THEN i
  ELSE Scan(s, i + step, step, kind)

\* the fallback phrase without its direction
SeekFallbackAlwaysNext(forward, label) == "No next " \o label

SeekFallback(forward, label) ==
  "No " \o (IF forward THEN "next" ELSE "previous") \o " " \o label

seek(forward, label) ==
  IF nodes = << >>
  THEN UNCHANGED << index, ring, timer >> /\ Silent
  ELSE LET step == IF forward THEN 1 ELSE -1
           hit == Scan(nodes, index + step, step, label)
       IN  IF hit # -1
           THEN focusAt(hit)
           ELSE /\ CanEmit
                /\ Narrate(SeekFallback(forward, label), muted)
                /\ UNCHANGED << index, ring, timer >>

\* onKey's isEditable (typing mode) and escapeAction's own test
IsEditable(e) == TagOf(e) \in { "INPUT", "TEXTAREA" }
IsEscapeEditable(e) == TagOf(e) = "INPUT"

\* activateOrFocus takes the edit branch for this node
IsEditTarget(node) ==
  TagOf(node.el) \in { "INPUT", "TEXTAREA", "SELECT" }
  \/ node.role \in { "textbox", "combobox" }

IsFocusable(e) == TagOf(e) \in { "BUTTON", "INPUT" }

\* A host mutation removes attached elements.
LegalChange(d, d2) ==
  \A e \in Elems : d2[e] = d[e] \/ (d[e] = "in" /\ d2[e] = "gone")

ActiveAfter(d2, a) == IF a \in Elems /\ d2[a] # "in" THEN Body ELSE a

\* ---------------------------------------------------------------- actions
Init ==
  /\ doc = [e \in Elems |-> "in"]
  /\ active = Body
  /\ ring = {}
  /\ value = [e \in Elems |-> << >>]
  /\ liveText = ""
  /\ nodes = collectAccTree(doc, value)
  /\ index = NoIndex
  /\ enabled = TRUE
  /\ muted = FALSE
  /\ unlocked = TRUE
  /\ log = << >>
  /\ speech = << >>
  /\ timer = FALSE
  /\ orphans = 0
  /\ alerts = << >>
  /\ typing = NoTimer
  /\ micro = NoTask
  /\ emitted = 0
  /\ said = << >>
  /\ lastOp = Op("init", 0)
  /\ hasObserver = TRUE
  /\ mounted = TRUE
  /\ probe = NoProbe
  /\ inputType = "text"

Idle == micro = NoTask /\ mounted

\* a step that neither changes the host's capabilities nor unmounts, and
\* applies no helper outside the engine
HostSteady == UNCHANGED << hasObserver, mounted, probe, inputType >>

\* actions.focusAt / focusNext / focusPrev, ArrowRight / ArrowLeft
MoveTo(i) ==
  /\ Idle
  /\ focusAt(i)
  /\ lastOp' = IF enabled /\ nodes # << >> THEN Op("moveTo", i)
               ELSE Op("other", 0)
  /\ HostSteady
  /\ UNCHANGED << doc, active, value, liveText, nodes, enabled, muted,
                  unlocked, orphans, alerts, typing, micro >>

\* onKey: "h" / "b", with Shift for backward
Seek(forward, label) ==
  /\ Idle
  /\ enabled
  /\ ~IsEditable(active)
  /\ seek(forward, label)
  /\ lastOp' = IF nodes # << >> THEN Op("seek", 0) ELSE Op("other", 0)
  /\ HostSteady
  /\ UNCHANGED << doc, active, value, liveText, nodes, enabled, muted,
                  unlocked, orphans, alerts, typing, micro >>

\* activateOrFocus up to queueMicrotask; the click handler of the host may
\* change the document before the microtask runs.
ActivateOrFocus ==
  /\ Idle
  /\ lastOp' = IF enabled /\ HasNode(nodes, index) THEN Op("activate", 0)
               ELSE Op("other", 0)
  /\ HostSteady
  /\ IF ~enabled \/ ~HasNode(nodes, index)
     THEN /\ Silent
          /\ UNCHANGED << doc, active, ring, timer, micro >>
     ELSE LET node == NodeAt(nodes, index)
          IN  IF IsEditTarget(node)
              THEN /\ CanEmit
                   /\ active' = IF node.el \in InDoc(doc)
                                THEN node.el ELSE active
                   /\ Narrate("Edit field" \o
                        (IF node.name # "" THEN " - " \o node.name ELSE ""),
                        muted)
                   /\ UNCHANGED << doc, ring, timer, micro >>
              ELSE /\ CanEmit
                   /\ \E d2 \in [Elems -> { "in", "gone" }] :
                        /\ LegalChange(doc, d2)
                        /\ doc' = d2
                        /\ active' = ActiveAfter(d2, active)
                        /\ ring' = ring \cap InDoc(d2)
                        /\ Observed(d2 # doc)
                   /\ micro' = [el |-> node.el, index |-> index,
                                muted |-> muted]
                   /\ Silent
  /\ UNCHANGED << value, liveText, nodes, index, enabled, muted,
                  unlocked, orphans, alerts, typing >>

\* the microtask of activateOrFocus
RunMicrotask ==
  /\ micro # NoTask
  /\ mounted
  /\ lastOp' = Op("microtask", micro.index)
  /\ HostSteady
  /\ micro' = NoTask
  /\ LET freshNodes == collectAccTree(doc, value)
         newNodeIndex == FindIndexOfEl(freshNodes, micro.el)
         found == newNodeIndex >= 0
         hasTarget == found \/ HasNode(freshNodes, micro.index)
         targetNode == IF found THEN NodeAt(freshNodes, newNodeIndex)
                       ELSE NodeAt(freshNodes, micro.index)
     IN  /\ nodes' = freshNodes
         /\ IF hasTarget
            THEN /\ CanEmit
                 /\ index' = IF found THEN newNodeIndex ELSE index
                 /\ Narrate(Announcement(targetNode, value), micro.muted)
                 /\ ring' = MoveRing(ring, doc, targetNode.el)
                 /\ Observed(ring # {} \/ targetNode.el \in InDoc(doc))
            ELSE /\ Silent
                 /\ UNCHANGED << index, ring, timer >>
  /\ UNCHANGED << doc, active, value, liveText, enabled, muted, unlocked,
                  orphans, alerts, typing >>

\* escapeAction
Escape ==
  /\ Idle
  /\ lastOp' = IF enabled THEN Op("escape", Len(speech)) ELSE Op("other", 0)
  /\ HostSteady
  /\ said' = << >>
  /\ IF ~enabled
     THEN UNCHANGED << active, ring, speech, timer >>
     ELSE /\ speech' = cancel(speech)
          /\ IF IsEscapeEditable(active)
             THEN /\ active' = Body
                  /\ IF HasNode(nodes, index)
                     THEN /\ ring' = ring \cup
                                       ({ NodeAt(nodes, index).el } \cap InDoc(doc))
                          /\ Observed(NodeAt(nodes, index).el
                                        \in InDoc(doc) \ ring)
                     ELSE UNCHANGED << ring, timer >>
             ELSE /\ ring' = {}
                  /\ Observed(ring # {})
                  /\ UNCHANGED active
  /\ UNCHANGED << doc, value, liveText, nodes, index, enabled, muted,
                  unlocked, log, orphans, alerts, typing, micro, emitted >>

\* onFocus without the test against the cursor
ShouldSyncAlways(i, cursor) == i >= 0

\* onFocus: i >= 0 && i !== index
ShouldSync(i, cursor) == i >= 0 /\ i # cursor

\* the host moves input focus to e; onFocus (Native Focus Sync) runs when
\* the engine is enabled
NativeFocus(e) ==
  /\ Idle
  /\ HostSteady
  /\ e = Hud \/ (e \in InDoc(doc) /\ IsFocusable(e))
  /\ active # e
  /\ active' = e
  /\ LET i == FindIndexOfEl(nodes, e)
     IN  IF enabled /\ ShouldSync(i, index)
         THEN focusAt(i) /\ lastOp' = Op("focus", index)
         ELSE /\ UNCHANGED << index, ring, timer >>
              /\ Silent
              /\ lastOp' = Op("other", 0)
  /\ UNCHANGED << doc, value, liveText, nodes, enabled, muted, unlocked,
                  orphans, alerts, typing, micro >>

\* the host removes one element; the observer sees a childList record
HostMutate(e) ==
  /\ Idle
  /\ doc[e] = "in"
  /\ doc' = [doc EXCEPT ![e] = "gone"]
  /\ active' = ActiveAfter(doc', active)
  /\ ring' = ring \cap InDoc(doc')
  /\ Observed(TRUE)
  /\ lastOp' = Op("other", 0)
  /\ HostSteady
  /\ Silent
  /\ UNCHANGED << value, liveText, nodes, index, enabled, muted,
                  unlocked, orphans, alerts, typing, micro >>

\* the rebuild timeout fires and stores nothing
RebuildTimerKeepsSnapshot ==
  /\ Idle
  /\ timer
  /\ timer' = FALSE
  /\ lastOp' = Op("other", 0)
  /\ HostSteady
  /\ Silent
  /\ UNCHANGED << doc, active, ring, value, liveText, nodes, index, enabled,
                  muted, unlocked, orphans, alerts, typing, micro >>

\* window.setTimeout(() => setNodes(collectAccTree()), 500) fires
RebuildTimer ==
  /\ Idle
  /\ timer
  /\ timer' = FALSE
  /\ nodes' = collectAccTree(doc, value)
  /\ lastOp' = Op("other", 0)
  /\ HostSteady
  /\ Silent
  /\ UNCHANGED << doc, active, ring, value, liveText, index, enabled, muted,
                  unlocked, orphans, alerts, typing, micro >>

\* a timeout scheduled by an effect instance that has since been cleaned up
OrphanTimer ==
  /\ Idle
  /\ orphans > 0
  /\ orphans' = orphans - 1
  /\ nodes' = collectAccTree(doc, value)
  /\ lastOp' = Op("other", 0)
  /\ HostSteady
  /\ Silent
  /\ UNCHANGED << doc, active, ring, value, liveText, index, enabled, muted,
                  unlocked, timer, alerts, typing, micro >>

\* useLiveTree's effect runs again: the cleanup disconnects the observer
\* (its timeout stays pending), then the body runs with the new enabled.
\* With enabled true the body stores the snapshot and calls
\* new MutationObserver(...), which throws where the host has none.
EffectRuns(en) ==
  /\ orphans + (IF timer THEN 1 ELSE 0) <= MaxOrphans
  /\ orphans' = orphans + (IF timer THEN 1 ELSE 0)
  /\ timer' = FALSE
  /\ hasObserver' = hasObserver
  /\ mounted' = (IF en THEN hasObserver ELSE mounted)
  /\ probe' = probe
  /\ inputType' = inputType
  /\ IF en
     THEN nodes' = collectAccTree(doc, value) /\ UNCHANGED ring
     ELSE nodes' = << >> /\ ring' = {}

\* the owner flips the enabled option
SetEnabled ==
  /\ Idle
  /\ enabled' = ~enabled
  /\ EffectRuns(~enabled)
  /\ lastOp' = Op("other", 0)
  /\ Silent
  /\ UNCHANGED << doc, active, value, liveText, index, muted, unlocked,
                  alerts, typing, micro >>

\* voiceschanged: the voice memo, narrate, handleAlert and so the deps of
\* useLiveTree's effect change
VoicesChanged ==
  /\ Idle
  /\ EffectRuns(enabled)
  /\ lastOp' = Op("other", 0)
  /\ Silent
  /\ UNCHANGED << doc, active, value, liveText, index, enabled, muted,
                  unlocked, alerts, typing, micro >>

\* actions.setMuted: narrate changes identity as for voiceschanged
SetMuted ==
  /\ Idle
  /\ muted' = ~muted
  /\ EffectRuns(enabled)
  /\ lastOp' = Op("other", 0)
  /\ Silent
  /\ UNCHANGED << doc, active, value, liveText, index, enabled, unlocked,
                  alerts, typing, micro >>

\* actions.clearLog
ClearLog ==
  /\ Idle
  /\ log' = << >>
  /\ emitted' = 0
  /\ said' = << >>
  /\ lastOp' = Op("clearLog", 0)
  /\ HostSteady
  /\ UNCHANGED << doc, active, ring, value, liveText, nodes, index, enabled,
                  muted, unlocked, speech, timer, orphans, alerts, typing,
                  micro >>

\* the speech device finishes the utterance at the head of its queue
SpeechEnds ==
  /\ Idle
  /\ speech # << >>
  /\ speech' = Tail(speech)
  /\ said' = << >>
  /\ lastOp' = Op("other", 0)
  /\ HostSteady
  /\ UNCHANGED << doc, active, ring, value, liveText, nodes, index, enabled,
                  muted, unlocked, log, timer, orphans, alerts, typing,
                  micro, emitted >>

\* onKey with focus in an editable field: handleTyping.  The caret is at
\* the end of the value; the field takes at most MaxValueLen characters.
Keys == { "a", "Backspace" }

\* handleTyping's echo that never masks
TypingEchoUnmasked(k, val, isPassword) ==
  IF k = "Backspace"
  THEN IF Len(val) > 0 THEN val[Len(val)] ELSE "Backspace"
  ELSE IF k = " " THEN "space" ELSE k

\* handleTyping, parts 1 and 2: the phrase echoed for key k
TypingEcho(k, val, isPassword) ==
  IF k = "Backspace"
  THEN IF Len(val) > 0
       THEN (IF isPassword THEN "star" ELSE val[Len(val)])
       ELSE "Backspace"
  ELSE IF isPassword THEN "star"
  ELSE IF k = " " THEN "space" ELSE k

\* handleTyping, part 3: the phrase of the debounced announcement
DebouncedPhrase(val, isPassword) ==
  IF isPassword THEN "Password field, value hidden"
  ELSE "Value: " \o ValueText(val)

TypeKey(k) ==
  /\ Idle
  /\ enabled
  /\ active \in Elems
  /\ IsEditable(active)
  /\ CanEmit
  /\ LET val == value[active]
         idx == Len(val)
     IN  /\ Narrate(TypingEcho(k, val, inputType = "password"), muted)
         /\ value' = [value EXCEPT ![active] =
                        IF k = "Backspace"
                        THEN (IF idx > 0 THEN SubSeq(val, 1, idx - 1) ELSE val)
                        ELSE (IF idx < MaxValueLen THEN Append(val, k)
                              ELSE val)]
  /\ typing' = [el |-> active, muted |-> muted]
  /\ lastOp' = Op("type", 0)
  /\ HostSteady
  /\ UNCHANGED << doc, active, ring, liveText, nodes, index, enabled, muted,
                  unlocked, timer, orphans, alerts, micro >>

\* the typingDebounce timeout fires
TypingTimer ==
  /\ Idle
  /\ typing # NoTimer
  /\ CanEmit
  /\ Narrate(DebouncedPhrase(value[typing.el], inputType = "password"),
             typing.muted)
  /\ typing' = NoTimer
  /\ lastOp' = Op("typingTimer", 0)
  /\ HostSteady
  /\ UNCHANGED << doc, active, ring, value, liveText, nodes, index, enabled,
                  muted, unlocked, timer, orphans, alerts, micro >>

\* the host rewrites the text of the live region; the observer (if any)
\* starts a settle timeout for the record, and a childList record also
\* (re)schedules the rebuild
LiveTexts == { "", "Saving", "Saved" }

\* aria-live of the page's status region
LivePoliteness == "polite"

LiveChange(t, childList) ==
  /\ Idle
  /\ t # liveText
  /\ liveText' = t
  /\ IF enabled
     THEN /\ Len(alerts) < MaxAlerts
          /\ alerts' = Append(alerts, muted)
     ELSE UNCHANGED alerts
  /\ Observed(childList)
  /\ lastOp' = Op("other", 0)
  /\ HostSteady
  /\ Silent
  /\ UNCHANGED << doc, active, ring, value, nodes, index, enabled, muted,
                  unlocked, orphans, typing, micro >>

\* a settle timeout fires: onAlert unless the region is empty
AlertTimer ==
  /\ Idle
  /\ alerts # << >>
  /\ alerts' = Tail(alerts)
  /\ IF liveText # ""
     THEN CanEmit /\ Narrate("Alert: " \o liveText, Head(alerts))
     ELSE Silent
  /\ lastOp' = Op("alertTimer", 0)
  /\ HostSteady
  /\ UNCHANGED << doc, active, ring, value, liveText, nodes, index, enabled,
                  muted, unlocked, timer, orphans, typing, micro >>

\* one position beyond each end of the longest snapshot
MoveArgs == (-1)..MaxElems

\* ---------------------------------------------- navigation specification
Next ==
  \/ Escape
  \/ \E f \in BOOLEAN, k \in SeekKinds : Seek(f, k)
  \/ \E i \in MoveArgs : MoveTo(i)
  \/ ActivateOrFocus
  \/ RunMicrotask
  \/ \E e \in Elems \cup { Hud } : NativeFocus(e)
  \/ \E e \in Elems : HostMutate(e)
  \/ RebuildTimer
  \/ OrphanTimer
  \/ SetEnabled
  \/ VoicesChanged
  \/ ClearLog
  \/ SpeechEnds

Spec == Init /\ [][Next]_vars

\* ------------------------------------------------ narration specification
\* Every source of narration, started after Shift+H was pressed LogCap times
\* on the fresh engine, muted or not, and the utterances have ended: each
\* press found no heading before the unset cursor and logged the fallback,
\* so the log is at its cap.
InitLog ==
  /\ doc = [e \in Elems |-> "in"]
  /\ active = Body
  /\ ring = {}
  /\ value = [e \in Elems |-> << >>]
  /\ liveText = ""
  /\ nodes = collectAccTree(doc, value)
  /\ index = NoIndex
  /\ enabled = TRUE
  /\ muted \in BOOLEAN
  /\ unlocked = TRUE
  /\ log = [k \in 1..LogCap |-> SeekFallback(FALSE, "heading")]
  /\ speech = << >>
  /\ timer = FALSE
  /\ orphans = 0
  /\ alerts = << >>
  /\ typing = NoTimer
  /\ micro = NoTask
  /\ emitted = 0
  /\ said = << >>
  /\ lastOp = Op("init", 0)
  /\ hasObserver = TRUE
  /\ mounted = TRUE
  /\ probe = NoProbe
  /\ inputType = "text"

NextLog ==
  \/ \E i \in MoveArgs : MoveTo(i)
  \/ \E f \in BOOLEAN, k \in SeekKinds : Seek(f, k)
  \/ ActivateOrFocus
  \/ RunMicrotask
  \/ \E e \in Elems : NativeFocus(e)
  \/ \E k \in Keys : TypeKey(k)
  \/ TypingTimer
  \/ \E t \in { "", "Saved" } : LiveChange(t, FALSE)
  \/ AlertTimer
  \/ ClearLog

SpecLog == InitLog /\ [][NextLog]_vars

\* ---------------------------------------------- live-region specification
\* The status region and the timers of useLiveTree, on a page whose elements
\* stay attached.
NextLive ==
  \/ \E t \in LiveTexts, c \in BOOLEAN : LiveChange(t, c)
  \/ AlertTimer
  \/ \E i \in MoveArgs : MoveTo(i)
  \/ ClearLog
  \/ SpeechEnds
  \/ RebuildTimer
  \/ OrphanTimer
  \/ SetEnabled

SpecLive == Init /\ [][NextLive]_vars

\* ---------------------------------------------- host without observation
\* A host that has no MutationObserver; the engine is mounted disabled (the
\* effect took its disable branch) and the owner may enable it.
InitNoObserver ==
  /\ doc = [e \in Elems |-> "in"]
  /\ active = Body
  /\ ring = {}
  /\ value = [e \in Elems |-> << >>]
  /\ liveText = ""
  /\ nodes = << >>
  /\ index = NoIndex
  /\ enabled = FALSE
  /\ muted = FALSE
  /\ unlocked = TRUE
  /\ log = << >>
  /\ speech = << >>
  /\ timer = FALSE
  /\ orphans = 0
  /\ alerts = << >>
  /\ typing = NoTimer
  /\ micro = NoTask
  /\ emitted = 0
  /\ said = << >>
  /\ lastOp = Op("init", 0)
  /\ hasObserver = FALSE
  /\ mounted = TRUE
  /\ probe = NoProbe
  /\ inputType = "text"

NextNoObserver ==
  \/ SetEnabled
  \/ \E e \in Elems : HostMutate(e)
  \/ \E e \in Elems \cup { Hud } : NativeFocus(e)
  \/ \E t \in LiveTexts : LiveChange(t, TRUE)
  \/ \E i \in MoveArgs : MoveTo(i)
  \/ ClearLog

SpecNoObserver == InitNoObserver /\ [][NextNoObserver]_vars

\* ------------------------------------------------- helpers on their own
\* every variable of the running engine
EngineVars == << doc, active, ring, value, liveText, nodes, index, enabled,
                 muted, unlocked, log, speech, timer, orphans, alerts,
                 typing, micro, emitted, said, lastOp, hasObserver, mounted,
                 inputType >>

\* the engine as constructed, before any operation
Fresh ==
  /\ doc = [e \in Elems |-> "in"]
  /\ active = Body
  /\ ring = {}
  /\ value = [e \in Elems |-> << >>]
  /\ liveText = ""
  /\ nodes = collectAccTree(doc, value)
  /\ index = NoIndex
  /\ enabled = TRUE
  /\ muted = FALSE
  /\ unlocked = TRUE
  /\ log = << >>
  /\ speech = << >>
  /\ timer = FALSE
  /\ orphans = 0
  /\ alerts = << >>
  /\ typing = NoTimer
  /\ micro = NoTask
  /\ emitted = 0
  /\ said = << >>
  /\ lastOp = Op("init", 0)
  /\ hasObserver = TRUE
  /\ mounted = TRUE
  /\ inputType = "text"

\* the helper is applied to its argument
Applied(out) ==
  /\ ~probe.done
  /\ probe' = [probe EXCEPT !.done = TRUE, !.out = out]
  /\ UNCHANGED EngineVars

\* ------------------------------------------------ format specification
\* formatAnnouncement on any node of these roles, names, descriptions,
\* state lists and coordinates, whose element has these properties.
FormatRoles == { "checkbox", "heading", "textbox", "statictext", "button" }
FormatStates ==
  { << >>, << "checked" >>, << "invalid", "expanded" >>,
    << "expanded", "unchecked", "required" >> }

FormatNodes ==
  [ role : FormatRoles, name : { "", "Save" },
    description : { "", "Sends the form" }, states : FormatStates,
    coords : { << >>, << 2, 3 >> } ]

FormatEls ==
  [ tag : { "H3", "DIV" }, ariaLevel : { 0, 4 }, type : { "text", "password" },
    value : { "", "abc" }, placeholder : { "", "Your email" },
    validationMessage : { "", "Fill in this field" },
    errorText : { "", "Not an address" } ]

InitFormat ==
  /\ Fresh
  /\ probe \in [ arg : [ node : FormatNodes, el : FormatEls ],
                  done : { FALSE }, out : { "" } ]

Format == Applied(formatAnnouncement(probe.arg.node, probe.arg.el))

NextFormat == Format

SpecFormat == InitFormat /\ [][NextFormat]_vars

\* ------------------------------------- state classifier specification
\* The three copies of computeStates on any element of these tags, roles
\* and attribute values; the native checked flag is set only where the
\* input type has one.
StateTags == { << "INPUT", "checkbox" >>, << "INPUT", "radio" >>,
               << "INPUT", "text" >>, << "DIV", "" >>, << "H3", "" >> }

StateEls ==
  { el \in { [ PlainEl(t[1], t[2]) EXCEPT
                 !.roleAttr = r, !.ariaChecked = c, !.checked = k,
                 !.ariaExpanded = x, !.ariaLevel = l, !.ariaInvalid = v ] :
               t \in StateTags,
               r \in { "null", "checkbox", "switch", "heading" },
               c \in { "null", "true", "false", "mixed" },
               k \in BOOLEAN,
               x \in { "null", "true", "false" },
               l \in { "null", "4" },
               v \in { "null", "true" } } :
      el.checked => el.type \in { "checkbox", "radio" } }

InitStates ==
  /\ Fresh
  /\ probe \in [ arg : StateEls, done : { FALSE },
                  out : { [ by |-> "", states |-> << >> ] } ]

\* collectNodesRecursively of Demo.tsx: computeStates(el, role) with the
\* effective role
DemoStates ==
  Applied([ by |-> "Demo.tsx",
            states |-> DemoComputeStates(probe.arg, RoleOf(probe.arg)) ])

EngineStates ==
  Applied([ by |-> "a11y-engine.ts",
            states |-> EngineComputeStates(probe.arg) ])

UtilsStates ==
  Applied([ by |-> "utils.ts", states |-> UtilsComputeStates(probe.arg) ])

NextStates == DemoStates \/ EngineStates \/ UtilsStates

SpecStates == InitStates /\ [][NextStates]_vars

\* ------------------------------------------- exposure gate specification
\* A chain of GateDepth reportable elements, element a + 1 the only child
\* of element a (a named region around a button, say).  Each carries any
\* of: the hidden attribute, aria-hidden="true", inert, display:none or
\* visibility:hidden from the author's styles.  The hidden attribute gives
\* display:none by the browser's style sheet, visibility is inherited, and
\* no descendant resets it.  The host may or may not have
\* Element.checkVisibility.
GateElems == 1..GateDepth

GateFlags ==
  [ hidden : BOOLEAN, ariaHidden : BOOLEAN, inert : BOOLEAN,
    displayNone : BOOLEAN, visibilityHidden : BOOLEAN ]

\* e and its ancestors
UpFrom(e) == 1..e

\* el.checkVisibility({ checkVisibilityCSS: css }): the element has a box,
\* and with css its computed visibility is not hidden
checkVisibility(f, e, css) ==
  /\ \A a \in UpFrom(e) : ~f[a].displayNone /\ ~f[a].hidden
  /\ css => \A a \in UpFrom(e) : ~f[a].visibilityHidden

\* Demo.tsx, isHidden
isHidden(f, e, hasCheckVisibility) ==
  IF \E a \in UpFrom(e) : f[a].ariaHidden THEN TRUE
  ELSE IF hasCheckVisibility THEN ~checkVisibility(f, e, TRUE)
  ELSE IF f[e].hidden THEN TRUE
  ELSE IF f[e].displayNone \/ (\E a \in UpFrom(e) : f[a].visibilityHidden)
       THEN TRUE
  ELSE \E a \in UpFrom(e) : f[a].inert

\* Demo.tsx, createAccWalker: FILTER_REJECT leaves out the rejected element
\* and its subtree
createAccWalker(f, hasCheckVisibility) ==
  { e \in GateElems : \A a \in UpFrom(e) : ~isHidden(f, a, hasCheckVisibility) }

\* utils.ts, getDeepElements: walk returns at an element without a box,
\* with the hidden attribute or with aria-hidden="true"
getDeepElements(f, hasCheckVisibility) ==
  { e \in GateElems :
      \A a \in UpFrom(e) :
        /\ ~(hasCheckVisibility /\ ~checkVisibility(f, a, FALSE))
        /\ ~f[a].hidden
        /\ ~f[a].ariaHidden }

\* utils.ts, isExposed
isExposed(f, e, hasCheckVisibility) ==
  IF hasCheckVisibility THEN checkVisibility(f, e, TRUE)
  ELSE IF ~checkVisibility(f, e, FALSE) THEN FALSE
  ELSE IF f[e].hidden THEN FALSE
  ELSE IF \E a \in UpFrom(e) : f[a].hidden \/ f[a].inert \/ f[a].ariaHidden
       THEN FALSE
  ELSE ~(f[e].displayNone \/ (\E a \in UpFrom(e) : f[a].visibilityHidden))

InitGate ==
  /\ Fresh
  /\ probe \in [ arg : [ flags : [GateElems -> GateFlags],
                          checkVisibility : BOOLEAN ],
                  done : { FALSE }, out : { {} } ]

\* collectAccTree of Demo.tsx: the elements of the snapshot
DemoCollect ==
  Applied(createAccWalker(probe.arg.flags, probe.arg.checkVisibility))

\* collectAccTree of utils.ts: the elements of the snapshot
UtilsCollect ==
  Applied({ e \in getDeepElements(probe.arg.flags, probe.arg.checkVisibility) :
              isExposed(probe.arg.flags, e, probe.arg.checkVisibility) })

NextGate == DemoCollect \/ UtilsCollect

SpecGate == InitGate /\ [][NextGate]_vars

\* ------------------------------------------ label pairing specification
\* A label element with direct text (so that it is a node of the walk),
\* up to two controls inside it, "first" before "second" in document
\* order, and one control "outside" it.  A control is absent from the
\* document, in it but hidden from the walk, or exposed.  The id of a
\* control is its name here; the label's for attribute is absent ("null"),
\* names one of the controls, or names no element ("nowhere").
LabelControls == << "first", "second", "outside" >>
LabelInside == { "first", "second" }

LabelDocs ==
  [ for : { "null", "first", "second", "outside", "nowhere" },
    ctl : [ { "first", "second", "outside" }
              -> { "absent", "hidden", "exposed" } ] ]

\* collectNodesRecursively on such a document: the elements of the nodes,
\* in document order
LabelWalk(d) ==
  << "label" >>
  \o SelectSeq(LabelControls, LAMBDA c : d.ctl[c] = "exposed")

\* document.getElementById(forId): "null" when no element has the id
getElementById(d, id) ==
  IF id \in DOMAIN d.ctl /\ d.ctl[id] # "absent" THEN id ELSE "null"

\* el.querySelector("input, select, textarea, button"): the first such
\* descendant of the label in the document, exposed or not
querySelector(d) ==
  IF d.ctl["first"] # "absent" THEN "first"
  ELSE IF d.ctl["second"] # "absent" THEN "second"
  ELSE "null"

\* Demo.tsx, consolidateTree
consolidateTree(els, d) ==
  LET target == IF d.for # "null" THEN getElementById(d, d.for) ELSE "null"
      implicitTarget == querySelector(d)
      Keep(el) ==
        IF el = "label"
        THEN IF target # "null" /\ Includes(els, target) THEN FALSE
             ELSE ~(implicitTarget # "null" /\ Includes(els, implicitTarget))
        ELSE TRUE
  IN  SelectSeq(els, Keep)

InitLabels ==
  /\ Fresh
  /\ probe \in [ arg : LabelDocs, done : { FALSE }, out : { << >> } ]

\* collectAccTree of Demo.tsx
CollectLabelled == Applied(consolidateTree(LabelWalk(probe.arg), probe.arg))

NextLabels == CollectLabelled

SpecLabels == InitLabels /\ [][NextLabels]_vars

\* --------------------------------------- narration-time specification
\* One element of the page and the node that the last build made of it: a
\* checkbox input, a text input or a button that may carry aria-expanded.
\* After the build the host may change the checked flag, aria-expanded,
\* the disabled flag or the text of the value; then focusAt narrates the
\* node.
RecTexts == { "", "abc", "abcd" }

RecVariants(tag, type) ==
  { [ PlainEl(tag, type) EXCEPT !.checked = k, !.ariaExpanded = x,
                                !.disabled = d ] :
      k \in (IF type = "checkbox" THEN BOOLEAN ELSE { FALSE }),
      x \in (IF tag = "BUTTON" THEN { "null", "true", "false" }
             ELSE { "null" }),
      d \in BOOLEAN }

RecEls ==
  RecVariants("INPUT", "checkbox") \cup RecVariants("INPUT", "text")
    \cup RecVariants("BUTTON", "")

RecTextsOf(el) == IF el.type = "text" THEN RecTexts ELSE { "" }

RecName(el) ==
  CASE el.type = "checkbox" -> "Agree"
    [] el.type = "text" -> "Email"
    [] OTHER -> "Menu"

\* what formatAnnouncement reads from the element
RecProps(el, text) ==
  [ tag |-> el.tag, ariaLevel |-> 0, type |-> el.type, value |-> text,
    placeholder |-> "", validationMessage |-> "", errorText |-> "" ]

\* collectAccTree's node of the element
RecNode(el, text) ==
  [ el |-> 0, role |-> RoleOf(el), name |-> RecName(el), description |-> "",
    states |-> UtilsComputeStates(el),
    value |-> (IF el.tag = "INPUT" THEN text ELSE ""), coords |-> << >> ]

\* a liveNode that is the snapshot's node as built
liveNodeAsBuilt(node, el, text) == node

\* focusAt / activateOrFocus: liveNode
liveNode(node, el, text) ==
  [ node EXCEPT !.states = UtilsComputeStates(el),
                !.value = (IF el.tag = "INPUT" THEN text ELSE "") ]

InitRecompute ==
  /\ Fresh
  /\ \E el \in RecEls : \E text \in RecTextsOf(el) :
       probe = [ arg |-> [ el |-> el, text |-> text,
                           node |-> RecNode(el, text) ],
                 done |-> FALSE, out |-> "" ]

\* the host changes the element's state or value; no rebuild follows
HostChangesState ==
  /\ ~probe.done
  /\ \E el \in RecVariants(probe.arg.el.tag, probe.arg.el.type) :
       \E text \in RecTextsOf(el) :
         /\ << el, text >> # << probe.arg.el, probe.arg.text >>
         /\ probe' = [ probe EXCEPT !.arg.el = el, !.arg.text = text ]
  /\ UNCHANGED EngineVars

\* focusAt on the node: narrate(formatAnnouncement(liveNode))
AnnounceLive ==
  Applied(formatAnnouncement(
            liveNode(probe.arg.node, probe.arg.el, probe.arg.text),
            RecProps(probe.arg.el, probe.arg.text)))

NextRecompute == HostChangesState \/ AnnounceLive

SpecRecompute == InitRecompute /\ [][NextRecompute]_vars

\* ------------------------------------------------ password specification
\* The inputs of the page are password fields; the user moves, activates,
\* lets focus sync, and types the characters "a" and "b" or Backspace.
PasswordChars == { "a", "b" }
PasswordKeys == PasswordChars \cup { "Backspace" }

InitPassword ==
  /\ doc = [e \in Elems |-> "in"]
  /\ active = Body
  /\ ring = {}
  /\ value = [e \in Elems |-> << >>]
  /\ liveText = ""
  /\ nodes = collectAccTree(doc, value)
  /\ index = NoIndex
  /\ enabled = TRUE
  /\ muted = FALSE
  /\ unlocked = TRUE
  /\ log = << >>
  /\ speech = << >>
  /\ timer = FALSE
  /\ orphans = 0
  /\ alerts = << >>
  /\ typing = NoTimer
  /\ micro = NoTask
  /\ emitted = 0
  /\ said = << >>
  /\ lastOp = Op("init", 0)
  /\ hasObserver = TRUE
  /\ mounted = TRUE
  /\ probe = NoProbe
  /\ inputType = "password"

NextPassword ==
  \/ \E i \in MoveArgs : MoveTo(i)
  \/ ActivateOrFocus
  \/ RunMicrotask
  \/ \E e \in Elems : NativeFocus(e)
  \/ \E k \in PasswordKeys : TypeKey(k)
  \/ TypingTimer
  \/ ClearLog

SpecPassword == InitPassword /\ [][NextPassword]_vars

\* ---------------------------------------------- activation specification
\* activateOrFocus on the node of any element of these tags and types,
\* content-editable or not, inside a form or not, with the role that the
\* tree builder of utils.ts or of Demo.tsx gives it.
ActTags ==
  { << "INPUT", "text" >>, << "INPUT", "password" >>,
    << "INPUT", "checkbox" >>, << "INPUT", "radio" >>,
    << "INPUT", "button" >>, << "INPUT", "submit" >>,
    << "INPUT", "range" >>, << "TEXTAREA", "textarea" >>,
    << "SELECT", "select-one" >>, << "BUTTON", "submit" >>,
    << "BUTTON", "button" >>, << "A", "" >>, << "DIV", "" >> }

ActEls ==
  { [ tag |-> t[1], type |-> t[2], roleAttr |-> r, isContentEditable |-> c,
      inForm |-> f, name |-> n ] :
      t \in ActTags, r \in { "null", "switch" }, c \in BOOLEAN,
      f \in BOOLEAN, n \in { "", "Email" } }

\* utils.ts, computeRole
UtilsRole(el) ==
  IF el.roleAttr # "null" THEN el.roleAttr
  ELSE CASE el.tag = "A" -> "link"
         [] el.tag = "BUTTON" -> "button"
         [] el.tag = "INPUT" /\ el.type = "checkbox" -> "checkbox"
         [] el.tag = "INPUT" /\ el.type = "radio" -> "radio button"
         [] el.tag = "INPUT" /\ el.type = "range" -> "slider"
         [] el.tag = "INPUT" -> "textbox"
         [] el.tag = "TEXTAREA" -> "textbox"
         [] el.tag = "SELECT" -> "combobox"
         [] OTHER -> ""

\* Demo.tsx, computeEffectiveRole: getRole of dom-accessibility-api
DemoRole(el) ==
  IF el.roleAttr # "null" THEN el.roleAttr
  ELSE CASE el.tag = "A" -> "link"
         [] el.tag = "BUTTON" -> "button"
         [] el.tag = "INPUT" /\ el.type \in { "button", "submit" } -> "button"
         [] el.tag = "INPUT" /\ el.type = "checkbox" -> "checkbox"
         [] el.tag = "INPUT" /\ el.type = "radio" -> "radio"
         [] el.tag = "INPUT" /\ el.type = "range" -> "slider"
         [] el.tag = "INPUT" /\ el.type = "text" -> "textbox"
         [] el.tag = "TEXTAREA" -> "textbox"
         [] el.tag = "SELECT" -> "combobox"
         [] OTHER -> "generic"

\* activateOrFocus past its guard: the branch taken for the node, what it
\* does to the element and what it narrates
Activation(el, role) ==
  LET isInput == el.tag \in { "INPUT", "TEXTAREA", "SELECT" }
      isEditRole == role \in { "textbox", "combobox" }
  IN  IF el.isContentEditable
         \/ (isInput
              /\ el.type \notin { "checkbox", "radio", "button", "submit" })
         \/ isEditRole
      THEN [ branch |-> "edit", focused |-> TRUE,
             narrated |-> "Edit field"
                          \o (IF el.name # "" THEN " - " \o el.name ELSE ""),
             clicked |-> FALSE, requestSubmit |-> FALSE,
             microtask |-> FALSE ]
      ELSE IF el.tag = "INPUT" /\ el.type = "submit"
           THEN [ branch |-> "submit", focused |-> FALSE, narrated |-> "",
                  clicked |-> FALSE, requestSubmit |-> el.inForm,
                  microtask |-> TRUE ]
           ELSE [ branch |-> "click", focused |-> FALSE, narrated |-> "",
                  clicked |-> TRUE, requestSubmit |-> FALSE,
                  microtask |-> TRUE ]

InitActivate ==
  /\ Fresh
  /\ probe \in [ arg : ActEls, done : { FALSE }, out : { << >> } ]

\* activateOrFocus on a node built by utils.ts
ActivateUtilsNode == Applied(Activation(probe.arg, UtilsRole(probe.arg)))

\* activateOrFocus on a node built by Demo.tsx
ActivateDemoNode == Applied(Activation(probe.arg, DemoRole(probe.arg)))

NextActivate == ActivateUtilsNode \/ ActivateDemoNode

SpecActivate == InitActivate /\ [][NextActivate]_vars

\* -------------------------------------------------- escape specification
\* escapeAction on an enabled engine whose snapshot is the three elements
\* 1, 2, 3 of the page: input focus is in an element of some tag,
\* content-editable or not, any of the three elements carries the
\* highlight class, and the cursor is unset or on one of the nodes.
EscapeFocus ==
  { [ tag |-> t, isContentEditable |-> c ] :
      t \in { "INPUT", "TEXTAREA", "BUTTON", "DIV", "BODY" },
      c \in BOOLEAN }

EscapeArgs ==
  [ focus : { f \in EscapeFocus : f.isContentEditable => f.tag = "DIV" },
    ring : SUBSET (1..3), index : (-1)..2 ]

\* onKey: isEditable, the test that routes keys to handleTyping
onKeyIsEditable(f) == f.tag \in { "INPUT", "TEXTAREA" } \/ f.isContentEditable

\* escapeAction past its guard; node i of the snapshot is element i + 1
escapeAction(a) ==
  IF a.focus.tag = "INPUT" \/ a.focus.isContentEditable
  THEN [ cancelled |-> TRUE, blurred |-> TRUE,
         ring |-> a.ring \cup (IF a.index >= 0 THEN { a.index + 1 } ELSE {}),
         index |-> a.index ]
  ELSE [ cancelled |-> TRUE, blurred |-> FALSE, ring |-> {},
         index |-> a.index ]

InitEscape ==
  /\ Fresh
  /\ probe \in [ arg : EscapeArgs, done : { FALSE }, out : { << >> } ]

EscapePressed == Applied(escapeAction(probe.arg))

NextEscape == EscapePressed

SpecEscape == InitEscape /\ [][NextEscape]_vars

\* ---------------------------------------------- settle specification
\* One mutation record inside a live region and its settle timeout: the
\* region's aria-live when the record is delivered and when the timeout
\* fires, the region's textContent at the timeout, and where input focus is
\* at the timeout.
SettleArgs ==
  [ politeness : { "off", "polite", "assertive" },
    politenessAtSettle : { "off", "polite", "assertive" },
    text : { "", " ", "Saved" },
    focus : { "region", "descendant", "outside" } ]

\* String.prototype.trim on the texts above
trim(t) == IF t = " " THEN "" ELSE t

\* the live-region check of the observer callback and the callback of the
\* timeout it sets: the phrases handed to onAlert
liveRegionCheck(a) ==
  IF a.politeness # "off"
  THEN LET text == trim(a.text)
       IN  IF text # "" /\ a.focus # "region"
           THEN << "Alert: " \o text >>
           ELSE << >>
  ELSE << >>

InitSettle ==
  /\ Fresh
  /\ probe \in [ arg : SettleArgs, done : { FALSE }, out : { << >> } ]

Settle == Applied(liveRegionCheck(probe.arg))

NextSettle == Settle

SpecSettle == InitSettle /\ [][NextSettle]_vars

\* -------------------------------------------- observation specification
\* The observer callback of useLiveTree on one batch of mutation records
\* whose targets are outside any live region, with a rebuild timeout
\* pending or not and the cursor unset or on the first node.
AttributeNames ==
  { "hidden", "style", "class", "aria-hidden", "aria-expanded",
    "aria-checked", "aria-invalid", "aria-label", "value", "null" }

\* MutationRecord: type and attributeName (null unless type is attributes)
Records ==
  { [ type |-> "childList", attributeName |-> "null" ],
    [ type |-> "characterData", attributeName |-> "null" ] }
  \cup { [ type |-> "attributes", attributeName |-> a ] :
           a \in AttributeNames }

Batches == UNION { [ 1..n -> Records ] : n \in 1..MaxBatch }

RebuildAttributesShort ==
  { "hidden", "style", "class", "aria-hidden", "aria-expanded",
    "aria-checked" }

\* the attribute names of the tree rebuild check
RebuildAttributes ==
  { "hidden", "style", "class", "aria-hidden", "aria-expanded",
    "aria-checked", "aria-invalid" }

\* m.attributeName || ""
NameOrEmpty(a) == IF a = "null" THEN "" ELSE a

\* the tree rebuild check over the records of the batch
shouldRebuild(batch) ==
  \E i \in 1..Len(batch) :
    \/ batch[i].type = "childList"
    \/ /\ batch[i].type = "attributes"
       /\ NameOrEmpty(batch[i].attributeName) \in RebuildAttributes

InitObserve ==
  /\ doc = [e \in Elems |-> "in"]
  /\ active = Body
  /\ ring = {}
  /\ value = [e \in Elems |-> << >>]
  /\ liveText = ""
  /\ nodes = collectAccTree(doc, value)
  /\ index \in { NoIndex, 0 }
  /\ enabled = TRUE
  /\ muted = FALSE
  /\ unlocked = TRUE
  /\ log = << >>
  /\ speech = << >>
  /\ timer \in BOOLEAN
  /\ orphans = 0
  /\ alerts = << >>
  /\ typing = NoTimer
  /\ micro = NoTask
  /\ emitted = 0
  /\ said = << >>
  /\ lastOp = Op("init", 0)
  /\ hasObserver = TRUE
  /\ mounted = TRUE
  /\ inputType = "text"
  /\ probe \in [ arg : Batches, done : { FALSE }, out : { << >> } ]

\* the observer callback runs on the batch; out records that clearTimeout
\* and setTimeout were called
Delivered ==
  /\ ~probe.done
  /\ enabled
  /\ LET rebuild == shouldRebuild(probe.arg)
     IN  /\ probe' = [probe EXCEPT !.done = TRUE,
                                   !.out = [ rescheduled |-> rebuild ]]
         /\ timer' = (IF rebuild THEN TRUE ELSE timer)
  /\ lastOp' = Op("other", 0)
  /\ Silent
  /\ UNCHANGED << doc, active, ring, value, liveText, nodes, index, enabled,
                  muted, unlocked, orphans, alerts, typing, micro,
                  hasObserver, mounted, inputType >>

NextObserve == Delivered

SpecObserve == InitObserve /\ [][NextObserve]_vars

\* ------------------------------------------- checkable specification
\* A checkbox or radio input, or a div, with these role and aria-checked
\* attributes and native checked flag, named or not: each tree builder makes
\* its node and formatAnnouncement phrases it.
CheckEls ==
  { el \in { [ PlainEl(t[1], t[2]) EXCEPT
                 !.roleAttr = r, !.ariaChecked = c, !.checked = k ] :
               t \in { << "INPUT", "checkbox" >>, << "INPUT", "radio" >>,
                       << "DIV", "" >> },
               r \in { "null", "checkbox", "radio", "switch" },
               c \in { "null", "true", "false", "mixed" },
               k \in BOOLEAN } :
      el.checked => el.tag = "INPUT" }

\* what formatAnnouncement reads from node.el
CheckProps(el) ==
  [ tag |-> el.tag, ariaLevel |-> 0, type |-> el.type, value |-> "",
    placeholder |-> "", validationMessage |-> "", errorText |-> "" ]

\* the AccNode a tree builder makes of el with this role and these states
CheckNode(role, name, states) ==
  [ role |-> role, name |-> name, description |-> "", states |-> states,
    coords |-> << >> ]

Announced(by, node, el) ==
  Applied([ by |-> by, node |-> node,
            phrase |-> formatAnnouncement(node, CheckProps(el)) ])

InitCheckable ==
  /\ Fresh
  /\ probe \in [ arg : [ el : CheckEls, name : { "", "Agree" } ],
                  done : { FALSE }, out : { << >> } ]

\* collectAccTree of utils.ts, then formatAnnouncement
UtilsAnnounce ==
  Announced("utils.ts",
            CheckNode(UtilsRole(probe.arg.el), probe.arg.name,
                      UtilsComputeStates(probe.arg.el)),
            probe.arg.el)

\* collectNodesRecursively of Demo.tsx, then formatAnnouncement
DemoAnnounce ==
  Announced("Demo.tsx",
            CheckNode(DemoRole(probe.arg.el), probe.arg.name,
                      DemoComputeStates(probe.arg.el,
                                        DemoRole(probe.arg.el))),
            probe.arg.el)

NextCheckable == UtilsAnnounce \/ DemoAnnounce

SpecCheckable == InitCheckable /\ [][NextCheckable]_vars

\* ------------------------------------------------- value specification
\* computeValue of Demo.tsx on a div with one of these roles and these
\* aria-valuetext, aria-valuenow, aria-valuemin and aria-valuemax
\* attributes; "null" is an absent attribute, the numbers are authored as
\* decimal integers.
ValueEls ==
  [ role : { "progressbar", "slider", "spinbutton", "meter" },
    valueText : { "null", "Half way" },
    now : { "null", "-5", "0", "5", "10" }, min : { "null", "-10", "0", "5" },
    max : { "null", "0", "10" } ]

\* Number(s) of an authored decimal integer
NumberOf(s) ==
  CASE s = "-10" -> -10 [] s = "-5" -> -5 [] s = "0" -> 0
    [] s = "5" -> 5 [] s = "10" -> 10

\* Number(el.getAttribute(name)) || fallback: Number(null) is 0, and 0 is
\* falsy
NumberOr(attr, fallback) ==
  IF attr = "null" THEN fallback
  ELSE IF NumberOf(attr) = 0 THEN fallback ELSE NumberOf(attr)

\* Math.round(n / d * 100) for d > 0: halves go up
RoundPercent(n, d) == (200 * n + d) \div (2 * d)

\* computeValue(el, role) of Demo.tsx; "" stands for undefined (the div is
\* no input, textarea or select)
DemoComputeValue(el) ==
  IF el.valueText # "null" THEN el.valueText
  ELSE IF el.now # "null"
            /\ el.role \in { "progressbar", "slider", "spinbutton" }
       THEN LET min == NumberOr(el.min, 0)
                max == NumberOr(el.max, 100)
                now == NumberOf(el.now)
            IN  IF el.role = "progressbar" /\ max > min
                THEN ToString(RoundPercent(now - min, max - min)) \o "%"
                ELSE el.now
       ELSE ""

InitValue ==
  /\ Fresh
  /\ probe \in [ arg : ValueEls, done : { FALSE }, out : { "" } ]

DemoValue == Applied(DemoComputeValue(probe.arg))

SpecValue == InitValue /\ [][DemoValue]_vars

\* ------------------------------------------ node filter specification
\* The body of the loop of collectNodesRecursively (Demo.tsx) on one
\* element the walker accepted: what getSafeRole gives for it ("" for
\* none), its own text, whether isFocusable holds, and the name, value,
\* states and hierarchy computed for it.
CollectEls ==
  [ safeRole : { "", "generic", "presentation", "none", "button", "img",
                 "heading" },
    directText : { "", "Hello" }, focusable : BOOLEAN,
    label : { "", "Save" }, value : { "", "5" },
    states : { << >>, << "expanded" >> }, hierarchy : BOOLEAN ]

\* computeEffectiveRole
computeEffectiveRole(el) ==
  IF el.safeRole \in { "", "generic", "presentation" }
  THEN IF el.directText # "" THEN "statictext" ELSE "generic"
  ELSE el.safeRole

\* one pass of the loop: the nodes pushed for el (none or one)
collectNode(el) ==
  LET role == computeEffectiveRole(el)
      isGeneric == role \in { "generic", "presentation", "none" }
      isText == role \in { "statictext", "paragraph", "heading" }
      isSelfContained ==
        role \in { "img", "image", "figure", "separator", "hr" }
      name == IF el.label = "" /\ isText THEN el.directText ELSE el.label
  IN  IF (~isGeneric \/ el.focusable \/ isSelfContained)
         /\ ( \/ name # ""
              \/ el.value # ""
              \/ el.focusable
              \/ el.states # << >>
              \/ isSelfContained
              \/ el.hierarchy )
      THEN << [ role |-> role, name |-> name, states |-> el.states,
                value |-> el.value, pos |-> el.hierarchy ] >>
      ELSE << >>

InitCollect ==
  /\ Fresh
  /\ probe \in [ arg : CollectEls, done : { FALSE }, out : { << >> } ]

CollectOne == Applied(collectNode(probe.arg))

SpecCollect == InitCollect /\ [][CollectOne]_vars

\* ------------------------------------------------ typing specification
\* handleTyping on one keydown (no modifier key held) in an editable
\* element: an input (password or not), a textarea or a content-editable
\* element, holding this text with the caret at idx, with the debounce
\* timeout pending or not.
TypingArgs ==
  { a \in [ kind : { "input", "textarea", "contenteditable" },
            isPassword : BOOLEAN,
            key : { "a", " ", "Backspace", "Delete", "ArrowLeft",
                    "ArrowRight" },
            val : { << >>, << "x" >>, << "x", "y" >> }, idx : 0..2,
            pending : BOOLEAN ] :
      /\ a.idx <= Len(a.val)
      /\ a.isPassword => a.kind = "input" }

\* handleTyping: the phrases narrated, whether the debounce timeout was
\* cleared and set again, and whether one is pending afterwards
handleTyping(a) ==
  LET isInput == a.kind \in { "input", "textarea" }
      Char(i) == IF a.isPassword THEN "star" ELSE a.val[i]
      behind == IF a.idx > 0 THEN << Char(a.idx) >> ELSE << >>
      ahead == IF a.idx < Len(a.val) THEN << Char(a.idx + 1) >> ELSE << >>
      feedback ==
        IF ~isInput THEN << >>
        ELSE CASE a.key = "Backspace" ->
                    IF a.idx > 0 THEN behind ELSE << "Backspace" >>
               [] a.key = "ArrowLeft" -> behind
               [] a.key = "Delete" ->
                    IF a.idx < Len(a.val) THEN ahead ELSE << "Delete" >>
               [] a.key = "ArrowRight" -> ahead
               [] OTHER -> << >>
      isPrintable == a.key \in { "a", " " }
      echo ==
        IF isPrintable
        THEN << IF a.isPassword THEN "star"
                ELSE IF a.key = " " THEN "space" ELSE a.key >>
        ELSE << >>
      shouldAnnounceValue ==
        (isInput /\ a.key \in { "Backspace", "Delete" }) \/ isPrintable
  IN  [ narrated |-> feedback \o echo,
        rescheduled |-> shouldAnnounceValue,
        pending |-> (shouldAnnounceValue \/ a.pending) ]

InitTyping ==
  /\ Fresh
  /\ probe \in [ arg : TypingArgs, done : { FALSE }, out : { << >> } ]

KeyDown == Applied(handleTyping(probe.arg))

SpecTyping == InitTyping /\ [][KeyDown]_vars

\* ----------------------------------------------- rebuild specification
\* The engine stays enabled while the host removes elements and the user
\* moves the cursor; a timeout that is pending fires when its delay has
\* passed, which the host's event loop guarantees.
NextRebuild ==
  \/ \E e \in Elems : HostMutate(e)
  \/ RebuildTimer
  \/ OrphanTimer
  \/ VoicesChanged
  \/ \E i \in MoveArgs : MoveTo(i)
  \/ ClearLog

SpecRebuild ==
  /\ Init
  /\ [][NextRebuild]_vars
  /\ WF_vars(RebuildTimer)
  /\ WF_vars(OrphanTimer)

\* --------------------------------------------- traversal specification
\* A document of MaxElems elements: element 1 is the root, every other
\* element has a parent of a lower number and is either a light child of it
\* or a child of its shadow root; siblings stand in the order of their
\* numbers.  Any element may be hidden (the walker rejects it).
TreeDocs ==
  { t \in [ parent : [ 2..MaxElems -> Elems ],
            shadow : [ 2..MaxElems -> BOOLEAN ],
            hidden : [ Elems -> BOOLEAN ] ] :
      \A e \in 2..MaxElems : t.parent[e] < e }

RECURSIVE collectNodesRecursively(_, _)
RECURSIVE WalkChildren(_, _, _, _)

\* the walks of the children k, k + 1, ... of p, those of its shadow root
\* or its light children, one after the other
WalkChildren(t, p, inShadow, k) ==
  IF k > MaxElems THEN << >>
  ELSE (IF t.parent[k] = p /\ t.shadow[k] = inShadow
        THEN collectNodesRecursively(t, k)
        ELSE << >>)
       \o WalkChildren(t, p, inShadow, k + 1)

collectLightFirst(t, e) ==
  IF t.hidden[e] THEN << >>
  ELSE << e >> \o WalkChildren(t, e, FALSE, e + 1)
              \o WalkChildren(t, e, TRUE, e + 1)

\* collectNodesRecursively from element e: a rejected element is left out
\* with its subtree; an accepted one is pushed, then its shadow root is
\* walked, then the walker goes on to its light children
collectNodesRecursively(t, e) ==
  IF t.hidden[e] THEN << >>
  ELSE << e >> \o WalkChildren(t, e, TRUE, e + 1)
              \o WalkChildren(t, e, FALSE, e + 1)

InitTree ==
  /\ Fresh
  /\ probe \in [ arg : TreeDocs, done : { FALSE }, out : { << >> } ]

Traverse == Applied(collectNodesRecursively(probe.arg, 1))

SpecTree == InitTree /\ [][Traverse]_vars

\* -------------------------------------------- idle-call specification
\* Calls and keys that reach an engine without a usable snapshot.  It is
\* disabled, with the cursor and the log an earlier session left, and with
\* no snapshot or the one a rebuild timeout stored after the teardown; or
\* it is enabled over a document whose elements have all been removed.
InitIdle ==
  /\ enabled \in BOOLEAN
  /\ doc \in (IF enabled THEN { [e \in Elems |-> "gone"] }
               ELSE [Elems -> { "in", "gone" }])
  /\ active \in { Body } \cup { e \in InDoc(doc) : IsFocusable(e) }
  /\ ring = {}
  /\ value = [e \in Elems |-> << >>]
  /\ liveText = ""
  /\ nodes \in { << >>, collectAccTree(doc, value) }
  /\ index \in (-1)..(MaxElems - 1)
  /\ muted = FALSE
  /\ unlocked = TRUE
  /\ log \in { << >>, << SeekFallback(TRUE, "heading") >> }
  /\ speech = << >>
  /\ timer = FALSE
  /\ orphans = 0
  /\ alerts = << >>
  /\ typing = NoTimer
  /\ micro = NoTask
  /\ emitted = 0
  /\ said = << >>
  /\ lastOp = Op("init", 0)
  /\ hasObserver = TRUE
  /\ mounted = TRUE
  /\ probe = NoProbe
  /\ inputType = "text"

NextIdle ==
  \/ Escape
  \/ \E f \in BOOLEAN, k \in SeekKinds : Seek(f, k)
  \/ \E i \in MoveArgs : MoveTo(i)
  \/ ActivateOrFocus

SpecIdle == InitIdle /\ [][NextIdle]_vars

\* ------------------------------------------------------------------ claims

\* C1: in every reachable state of the running engine, after any
\* interleaving of moves, seeks, activations, focus syncs and rebuilds, the
\* cursor is -1 or an index of the current snapshot.
C1_CursorInRange == enabled => (index = NoIndex \/ HasNode(nodes, index))

\* C2: on an enabled engine with a non-empty snapshot of length n, moveTo(i)
\* sets the cursor to min(max(i, 0), n - 1) and emits exactly one narration,
\* the announcement of the node at that index.
C2_MoveToClamps ==
  [][ \A i \in MoveArgs :
        (enabled /\ nodes # << >> /\ MoveTo(i)) =>
          LET n == Len(nodes)
              c == IF i < 0 THEN 0 ELSE IF i > n - 1 THEN n - 1 ELSE i
          IN  /\ index' = c
              /\ emitted' = emitted + 1
              /\ log' = << Announcement(nodes[c + 1], value) >> \o log
    ]_vars

\* a moveTo beyond the last node has left the cursor on the last node, and
\* that node's announcement is the newest log entry
C2_Witness ==
  /\ lastOp.op = "moveTo"
  /\ enabled
  /\ Len(nodes) >= 2
  /\ lastOp.arg > Len(nodes) - 1
  /\ index = Len(nodes) - 1
  /\ log # << >>
  /\ Head(log) = Announcement(nodes[index + 1], value)

\* indexes strictly beyond the cursor in the direction whose node matches
MatchesBeyond(forward, kind) ==
  { j \in 0..(Len(nodes) - 1) :
      /\ IF forward THEN j > index ELSE j < index
      /\ SeekPred(kind, nodes[j + 1]) }

Nearest(forward, js) ==
  CHOOSE j \in js : \A k \in js : IF forward THEN j <= k ELSE j >= k

\* C3: when some node strictly beyond the cursor in the direction matches,
\* seek leaves the cursor on the nearest such node, whatever the cursor was.
C3_SeekFindsNearest ==
  [][ \A f \in BOOLEAN, k \in SeekKinds :
        (nodes # << >> /\ MatchesBeyond(f, k) # {} /\ Seek(f, k)) =>
          index' = Nearest(f, MatchesBeyond(f, k))
    ]_vars

\* C4: when no node beyond the cursor in the direction matches, seek leaves
\* the cursor unchanged and emits exactly one "No next/previous <label>".
C4_SeekFallbackAlways ==
  [][ \A f \in BOOLEAN, k \in SeekKinds :
        (MatchesBeyond(f, k) = {} /\ Seek(f, k)) =>
          /\ index' = index
          /\ emitted' = emitted + 1
          /\ log' = << "No " \o (IF f THEN "next " ELSE "previous ") \o k >>
                    \o log
    ]_vars

\* C4 as amended: the same, on a non-empty snapshot.
C4_SeekFallbackNonEmpty ==
  [][ \A f \in BOOLEAN, k \in SeekKinds :
        (nodes # << >> /\ MatchesBeyond(f, k) = {} /\ Seek(f, k)) =>
          /\ index' = index
          /\ emitted' = emitted + 1
          /\ log' = << "No " \o (IF f THEN "next " ELSE "previous ") \o k >>
                    \o log
    ]_vars

\* a forward seek for a button from a cursor with no button after it has
\* spoken the fallback and left the cursor where it was
C4_Witness ==
  /\ lastOp.op = "seek"
  /\ nodes # << >>
  /\ HasNode(nodes, index)
  /\ MatchesBeyond(TRUE, "button") = {}
  /\ log # << >>
  /\ Head(log) = "No next button"

\* C5: at most one element of the document carries the srs-focus-ring class.
C5_AtMostOneHighlight == Cardinality(ring) <= 1

\* position of an attached element in a snapshot built from document d
RankIn(d, el) == Cardinality({ e \in InDoc(d) : e < el })

\* C6: the microtask of an activation rebuilds the snapshot, and when the
\* activated element is still in it, the cursor becomes that element's new
\* index and that element is the one announced and highlighted.
C6_ReannounceByIdentity ==
  [][ (RunMicrotask /\ micro.el \in InDoc(doc)) =>
        /\ Len(nodes') = Cardinality(InDoc(doc))
        /\ index' = RankIn(doc, micro.el)
        /\ nodes'[index' + 1].el = micro.el
        /\ emitted' = emitted + 1
        /\ log' = << Announcement(MakeNode(micro.el, value), value) >> \o log
        /\ ring' = { micro.el }
    ]_vars

\* the microtask found the activated element at another index than the one
\* it was activated at, moved the cursor there and highlighted it
C6_Witness ==
  /\ lastOp.op = "microtask"
  /\ HasNode(nodes, index)
  /\ index # lastOp.arg
  /\ ring = { nodes[index + 1].el }
  /\ Head(log) = Announcement(nodes[index + 1], value)

\* C7: when the activated element is no longer in the rebuilt snapshot, the
\* cursor stays at the old index, which is a valid index of the new
\* snapshot, and the node now at that index is announced and highlighted.
C7_StaleFallsBackByIndex ==
  [][ (RunMicrotask /\ micro.el \notin InDoc(doc)) =>
        /\ index' = index
        /\ HasNode(nodes', index')
        /\ emitted' = emitted + 1
        /\ log' = << Announcement(nodes'[index' + 1], value) >> \o log
        /\ ring' = { nodes'[index' + 1].el }
    ]_vars

\* C8: every call of escape() cancels the narration in flight.
C8_EscapeAlwaysCancels == [][ Escape => speech' = << >> ]_vars

\* C8 as amended: every call of escape() on an enabled engine cancels the
\* narration in flight; on a disabled engine the call changes nothing.
C8_EscapeCancelsWhenEnabled ==
  [][ Escape => IF enabled THEN speech' = << >>
                ELSE UNCHANGED << speech, ring, active >> ]_vars

\* escape() ran on an enabled engine while an utterance was queued, and the
\* queue is empty
C8_Witness ==
  /\ lastOp.op = "escape"
  /\ lastOp.arg > 0
  /\ enabled
  /\ speech = << >>

\* C9: a focus event on an element of the snapshot sets the cursor to its
\* index and announces it once, also when it already is the cursor's node;
\* a focus event on any other element leaves the cursor unchanged.
C9_FocusSyncAlwaysAnnounces ==
  [][ \A e \in Elems \cup { Hud } :
        NativeFocus(e) =>
          LET i == FindIndexOfEl(nodes, e)
          IN  IF i >= 0
              THEN /\ index' = i
                   /\ emitted' = emitted + 1
                   /\ log' = << Announcement(nodes[i + 1], value) >> \o log
              ELSE index' = index
    ]_vars

\* C9 as amended: on an enabled engine a focus event on an element of the
\* snapshot at another index than the cursor sets the cursor to that index
\* and announces the node once; on the cursor's own node it announces
\* nothing; on any other element it leaves the cursor unchanged.
C9_FocusSyncMovesCursor ==
  [][ \A e \in Elems \cup { Hud } :
        (enabled /\ NativeFocus(e)) =>
          LET i == FindIndexOfEl(nodes, e)
          IN  IF i >= 0 /\ i # index
              THEN /\ index' = i
                   /\ emitted' = emitted + 1
                   /\ log' = << Announcement(nodes[i + 1], value) >> \o log
              ELSE /\ index' = index
                   /\ emitted' = emitted
                   /\ log' = log
    ]_vars

\* a focus event moved the cursor from another index to the focused
\* element's index and its announcement is the newest log entry
C9_Witness ==
  /\ lastOp.op = "focus"
  /\ enabled
  /\ active \in Elems
  /\ FindIndexOfEl(nodes, active) = index
  /\ lastOp.arg # index
  /\ lastOp.arg # NoIndex
  /\ Head(log) = Announcement(nodes[index + 1], value)

\* C10: the log holds the narrated phrases most recent first, its first entry
\* is the phrase narrated last, it never holds more than 50 entries, and a
\* phrase handed to the speech device is the one just put into the log.
C10_LogIsRecentFirstRing ==
  [][ /\ Len(log') <= 50
      /\ lastOp'.op = "clearLog" => log' = << >>
      /\ (lastOp'.op # "clearLog" /\ emitted' = emitted) => log' = log
      /\ (lastOp'.op # "clearLog" /\ emitted' # emitted) =>
           /\ emitted' = emitted + 1
           /\ log' # << >>
           /\ Tail(log') = SubSeq(log, 1, Min(Len(log), 49))
           /\ lastOp'.op = "alertTimer" => Head(log') = "Alert: " \o liveText
           /\ lastOp'.op = "typingTimer" =>
                Head(log') = "Value: " \o ValueText(value[typing.el])
           /\ lastOp'.op = "type" => Head(log') \in { "a", "Backspace" }
           /\ lastOp'.op = "activate" =>
                Head(log') = "Edit field - " \o nodes[index + 1].name
           /\ lastOp'.op = "moveTo" =>
                Head(log') = Announcement(nodes[index' + 1], value)
      /\ said' # << >> => (emitted' = emitted + 1 /\ said' = << Head(log') >>)
    ]_vars

\* the log is full, its oldest entries were dropped, and the newest entry is
\* a live-region alert that was also handed to the speech device
C10_Witness ==
  /\ Len(log) = 50
  /\ emitted >= 1
  /\ lastOp.op = "alertTimer"
  /\ Head(log) = "Alert: Saved"
  /\ said = << "Alert: Saved" >>
  /\ log[50] = "No previous heading"

\* rebuild timeouts that are pending, whichever effect instance set them
PendingRebuilds == (IF timer THEN 1 ELSE 0) + orphans

\* C11: a tree-invalidating mutation callback leaves exactly one rebuild
\* timeout pending.  A timeout pending when the callback arrives was set less
\* than 500 ms earlier, so it belongs to the same burst; were it not
\* cancelled, the burst would end in more than one rebuild.
C11_BurstLeavesOneRebuild ==
  [][ \A e \in Elems :
        (enabled /\ HostMutate(e)) => (timer' /\ PendingRebuilds' = 1)
    ]_vars

\* C12: while the engine is disabled no rebuild timeout is pending and the
\* snapshot is empty.
C12_TeardownCancelsRebuild ==
  ~enabled => (PendingRebuilds = 0 /\ nodes = << >>)

\* C13: a live-region alert is narrated once per burst of changes and carries
\* the region's text: when a settle timeout narrates, no other settle timeout
\* is pending.  One that is pending was set by a later change of the same
\* burst (changes at 0 and 40 ms: timeouts at 100 and 140 ms) and will narrate
\* the same text again.
C13_OneAlertPerBurst ==
  [][ (AlertTimer /\ emitted' # emitted) =>
        /\ alerts' = << >>
        /\ Head(log') = "Alert: " \o liveText
    ]_vars

\* C14: an alert of a polite region is queued behind the narration in flight,
\* an alert of an assertive region replaces it.
C14_AlertFollowsPoliteness ==
  [][ (AlertTimer /\ said' # << >>) =>
        speech' = (IF LivePoliteness = "assertive" THEN << >> ELSE speech)
                  \o said'
    ]_vars

\* C15: on a host without mutation observation, enabling the engine does
\* not fail: the step that turns it on stores the initial snapshot and
\* leaves the engine mounted, so that moveTo, seek, activate and escape
\* keep working on that snapshot.
C15_EnablesWithoutObserver ==
  [][ (SetEnabled /\ ~enabled /\ ~hasObserver) =>
        (mounted' /\ nodes' = collectAccTree(doc, value)) ]_vars

\* the text of part k of the phrase of a node ("" when the node has no such
\* part), k counting the parts in the order the contract lists them
C16_Part(k, node, el) ==
  LET level == IF el.ariaLevel # 0 THEN el.ariaLevel ELSE TagLevel(el.tag)
      checks == { i \in 1..Len(node.states) : IsCheckLabel(node.states[i]) }
      others == { i \in 1..Len(node.states) :
                    ~IsCheckOrInvalidLabel(node.states[i]) }
      RECURSIVE Listed(_)
      Listed(i) ==
        IF i > Len(node.states) THEN ""
        ELSE IF i \in others
             THEN node.states[i] \o
                  (IF \E j \in others : j > i THEN ", " ELSE "") \o Listed(i + 1)
             ELSE Listed(i + 1)
  IN  CASE k = 1 ->
             IF node.role \in { "checkbox", "radio button", "switch" }
                  /\ checks # {}
             THEN node.states[CHOOSE i \in checks : \A j \in checks : i <= j]
             ELSE ""
        [] k = 2 -> IF node.name # "" THEN "\"" \o node.name \o "\"" ELSE ""
        [] k = 3 ->
             IF node.role \in { "", "statictext" } THEN ""
             ELSE IF node.role = "heading"
                  THEN IF level = -1 THEN "Heading"
                       ELSE "Heading level " \o ToString(level)
                  ELSE Capitalize(ROLE_MAP(node.role))
        [] k = 4 -> node.description
        [] k = 5 ->
             IF node.role \notin { "textbox", "combobox" } THEN ""
             ELSE IF el.type = "password" THEN "Password field"
             ELSE IF el.value # "" THEN "Value: " \o el.value
             ELSE el.placeholder
        [] k = 6 ->
             IF \A i \in 1..Len(node.states) : node.states[i] # "invalid"
             THEN ""
             ELSE IF el.validationMessage # ""
                  THEN "Error: " \o el.validationMessage
                  ELSE IF el.errorText # "" THEN "Error: " \o el.errorText
                  ELSE ""
        [] k = 7 -> Listed(1)
        [] OTHER ->
             IF node.coords = << >> THEN ""
             ELSE "row " \o ToString(node.coords[1]) \o ", col "
                    \o ToString(node.coords[2])

\* parts k..8 that are present, in that order, with ", " between neighbours
RECURSIVE C16_InOrder(_, _, _)
C16_InOrder(k, node, el) ==
  IF k > 8 THEN ""
  ELSE LET part == C16_Part(k, node, el)
           rest == C16_InOrder(k + 1, node, el)
       IN  IF part = "" THEN rest
           ELSE IF rest = "" THEN part
           ELSE part \o ", " \o rest

\* C16: the phrase that format produces for a node is its parts in the
\* fixed order check state, quoted name, role label, description, value or
\* placeholder, error text, remaining states, table coordinates; a part the
\* node does not have is left out, and ", " separates the parts.
C16_PartsInFixedOrder ==
  probe.done => probe.out = C16_InOrder(1, probe.arg.node, probe.arg.el)

\* a textbox with a name, a description, a value, an error, a remaining
\* state and coordinates has been formatted
C16_Witness ==
  /\ probe.done
  /\ probe.arg.node.role = "textbox"
  /\ probe.arg.node.name # ""
  /\ probe.arg.node.description # ""
  /\ probe.arg.node.states = << "invalid", "expanded" >>
  /\ probe.arg.node.coords # << >>
  /\ probe.arg.el.type = "text"
  /\ probe.arg.el.value # ""
  /\ probe.arg.el.errorText # ""
  /\ probe.arg.el.validationMessage = ""
  /\ probe.out = "\"Save\", Textbox, Sends the form, Value: abc, "
                   \o "Error: Not an address, expanded, row 2, col 3"

\* C17: a checkbox-, radio- or switch-role element whose native checked
\* flag is true and that has no aria-checked gets "checked" and not
\* "unchecked"; and no computed state list holds both "checked" and
\* "unchecked", nor both "expanded" and "collapsed".
C17_CheckedNotContradicted ==
  probe.done =>
    LET el == probe.arg
        states == probe.out.states
    IN  /\ (RoleOf(el) \in { "checkbox", "radio", "switch" } /\ el.checked
              /\ el.ariaChecked = "null")
            => (Includes(states, "checked") /\ ~Includes(states, "unchecked"))
        /\ ~(Includes(states, "checked") /\ Includes(states, "unchecked"))
        /\ ~(Includes(states, "expanded") /\ Includes(states, "collapsed"))

\* the states of a natively checked checkbox input without aria-checked,
\* used as a switch and collapsed, have been computed
C17_Witness ==
  /\ probe.done
  /\ probe.out.by = "Demo.tsx"
  /\ probe.arg.tag = "INPUT"
  /\ probe.arg.roleAttr = "switch"
  /\ probe.arg.checked
  /\ probe.arg.ariaChecked = "null"
  /\ probe.arg.ariaExpanded = "false"
  /\ Includes(probe.out.states, "checked")
  /\ Includes(probe.out.states, "collapsed")

\* C18: where aria-checked and the native checked flag disagree the
\* computed state follows aria-checked: "false" on a natively checked
\* checkbox, radio or switch gives "unchecked" and not "checked", and "mixed"
\* gives "partially checked" whatever the native flag is.
C18_AriaCheckedWins ==
  probe.done =>
    LET el == probe.arg
        states == probe.out.states
    IN  /\ (el.ariaChecked = "false" /\ el.checked
               /\ RoleOf(el) \in { "checkbox", "radio", "switch" })
            => (Includes(states, "unchecked") /\ ~Includes(states, "checked"))
        /\ el.ariaChecked = "mixed" => Includes(states, "partially checked")

\* C19: a heading-role element with an h1..h6 tag and no aria-level gets
\* the state "level N", N the digit of its tag, which is the label that the
\* seek for "heading level N" looks for.
C19_HeadingHasTagLevel ==
  probe.done =>
    LET el == probe.arg
    IN  (RoleOf(el) = "heading" /\ el.ariaLevel = "null"
           /\ TagLevel(el.tag) # -1)
        => Includes(probe.out.states, "level " \o ToString(TagLevel(el.tag)))

\* C20: no element of a built snapshot is hidden, itself or through an
\* ancestor, by the hidden attribute, aria-hidden="true", inert,
\* display:none or visibility:hidden; the subtree of an element that fails
\* the gate is absent as a whole.
C20_NoHiddenNode ==
  probe.done =>
    \A e \in probe.out : \A a \in UpFrom(e) :
      LET fl == probe.arg.flags[a]
      IN  ~(fl.hidden \/ fl.ariaHidden \/ fl.inert \/ fl.displayNone
              \/ fl.visibilityHidden)

\* C21: a built snapshot holds no label paired with an element of the
\* snapshot, neither through its for attribute nor by wrapping a control
\* that is in the snapshot; the controls themselves stay.
C21_NoPairedLabel ==
  probe.done =>
    LET d == probe.arg
    IN  /\ Includes(probe.out, "label") =>
              /\ ~(d.for \in DOMAIN d.ctl /\ Includes(probe.out, d.for))
              /\ ~(\E c \in LabelInside : Includes(probe.out, c))
        /\ \A c \in DOMAIN d.ctl :
              d.ctl[c] = "exposed" => Includes(probe.out, c)

\* C22: the announcement of a node carries the element's states and value
\* as they are when it is narrated: it is the phrase of a node built from
\* the element at that moment, whatever the snapshot has cached.
C22_AnnouncesLiveStateAndValue ==
  probe.done =>
    probe.out = formatAnnouncement(RecNode(probe.arg.el, probe.arg.text),
                                   RecProps(probe.arg.el, probe.arg.text))

\* a checkbox that was unchecked at the build and has been checked since
\* is announced as checked
C22_Witness ==
  /\ probe.done
  /\ probe.arg.node.states = << "unchecked" >>
  /\ probe.arg.el.checked
  /\ probe.out = "checked, \"Agree\", Checkbox"

\* the values that differ from v at most in their characters
RECURSIVE SameLengthsFrom(_, _)
SameLengthsFrom(v, e) ==
  IF e > MaxElems THEN { v }
  ELSE { [ w EXCEPT ![e] = s ] :
           w \in SameLengthsFrom(v, e + 1),
           s \in [1..Len(v[e]) -> PasswordChars] }

SameLengths(v) == SameLengthsFrom(v, 1)

\* the keys that a run differing only in the typed characters may have
\* pressed in place of k
KeysLike(k) == IF k = "Backspace" THEN { "Backspace" } ELSE PasswordChars

\* C23: with password fields, what a step narrates and logs is what the
\* same step narrates and logs in any run that differs only in the
\* characters typed: the typing echo, the debounced value announcement and
\* the announcement of a node are the same for every value of the same
\* length and every printable key.
C23_PasswordNeverNarrated ==
  [][ /\ \A k \in PasswordKeys :
           TypeKey(k) =>
             \A k2 \in KeysLike(k), v2 \in SameLengths(value) :
               LET phrase == TypingEcho(k2, v2[active], TRUE)
               IN  Head(log') = phrase /\ said' \in { << >>, << phrase >> }
      /\ TypingTimer =>
           \A v2 \in SameLengths(value) :
             LET phrase == DebouncedPhrase(v2[typing.el], TRUE)
             IN  Head(log') = phrase /\ said' \in { << >>, << phrase >> }
      /\ (lastOp'.op \in { "moveTo", "focus", "microtask" }
            /\ emitted' # emitted) =>
           \E e \in Elems : \A v2 \in SameLengths(value) :
             LET phrase == Announcement(MakeNode(e, v2), v2)
             IN  Head(log') = phrase /\ said' \in { << >>, << phrase >> }
    ]_vars

\* a password field that holds a typed character has been announced
C23_Witness ==
  /\ inputType = "password"
  /\ lastOp.op = "moveTo"
  /\ HasNode(nodes, index)
  /\ value[NodeAt(nodes, index).el] # << >>
  /\ log # << >>
  /\ Head(log) = "\"" \o NameOf(NodeAt(nodes, index).el)
                   \o "\", Textbox, Password field"

\* an element that takes text: content-editable, a textarea, a select, or
\* an input of a text type
TakesText(el) ==
  \/ el.isContentEditable
  \/ el.tag \in { "TEXTAREA", "SELECT" }
  \/ (el.tag = "INPUT" /\ el.type \in { "text", "password" })

\* C24: activateOrFocus takes the edit branch exactly for a text-entry
\* node; there it focuses the element, narrates "Edit field" with the name
\* when there is one, clicks nothing and schedules nothing; on every other
\* node (checkbox, radio, button, link, slider) it activates the element
\* and does not say "Edit field".
C24_EditBranchOnlyForTextEntry ==
  probe.done =>
    LET el == probe.arg
        out == probe.out
    IN  /\ out.branch = "edit" <=> TakesText(el)
        /\ out.branch = "edit" =>
              /\ out.focused
              /\ out.narrated = "Edit field"
                    \o (IF el.name # "" THEN " - " \o el.name ELSE "")
              /\ ~out.clicked /\ ~out.requestSubmit /\ ~out.microtask
        /\ out.branch # "edit" => out.narrated = ""

\* C25: activateOrFocus on a submit input or a submit button of a form
\* calls requestSubmit with the control as submitter and does not click it.
C25_SubmitNotClick ==
  probe.done =>
    LET el == probe.arg
    IN  (el.tag \in { "INPUT", "BUTTON" } /\ el.type = "submit" /\ el.inForm
           /\ ~el.isContentEditable)
        => (probe.out.requestSubmit /\ ~probe.out.clicked)

\* C26: escape() with input focus in an editable element (an input, a
\* textarea or a content-editable element, the set that routes keys to the
\* typing echo) blurs it and leaves the highlight on the cursor's node and
\* on nothing else; with focus anywhere else no element is left
\* highlighted; the cursor does not change.
C26_EscapeRestoresHighlight ==
  probe.done =>
    LET a == probe.arg
        out == probe.out
    IN  /\ out.index = a.index
        /\ IF onKeyIsEditable(a.focus)
           THEN out.blurred /\ (a.index >= 0 => out.ring = { a.index + 1 })
           ELSE out.ring = {}

\* C27: once the engine is torn down (enabled is false) a timeout that was
\* pending at teardown narrates nothing and appends nothing to the log: a
\* live-region settle timeout raises no alert and a typing-debounce timeout
\* announces no value.
C27_NoNarrationAfterTeardown ==
  [][ ((AlertTimer \/ TypingTimer) /\ ~enabled) =>
        (log' = log /\ emitted' = emitted /\ speech' = speech)
    ]_vars

\* C28: a change inside a live region raises an alert only if, when the
\* settle delay elapses, the region's text is not empty, its politeness is
\* not "off", and input focus is neither on the region nor on one of its
\* descendants.
C28_AlertOnlyWhenUnfocused ==
  (probe.done /\ probe.out # << >>) =>
    /\ trim(probe.arg.text) # ""
    /\ probe.arg.politenessAtSettle # "off"
    /\ probe.arg.focus = "outside"

\* the batches the rebuild is promised for
C29_Invalidates(batch) ==
  \E i \in 1..Len(batch) :
    \/ batch[i].type = "childList"
    \/ /\ batch[i].type = "attributes"
       /\ batch[i].attributeName \in
            { "hidden", "style", "class", "aria-hidden", "aria-expanded",
              "aria-checked", "aria-invalid" }

\* C29: a mutation batch (re)schedules the rebuild timeout if and only if
\* one of its records is a child-list mutation or an attribute mutation of
\* hidden, style, class, aria-hidden, aria-expanded, aria-checked or
\* aria-invalid; any other batch leaves the snapshot, the cursor and a
\* pending rebuild timeout as they were.
C29_StaleIffStructural ==
  [][ Delivered =>
        /\ UNCHANGED << nodes, index >>
        /\ IF C29_Invalidates(probe.arg)
           THEN probe'.out.rescheduled /\ timer'
           ELSE ~probe'.out.rescheduled /\ timer' = timer
    ]_vars

C29_Witness ==
  /\ probe.done
  /\ Len(probe.arg) = 2
  /\ probe.arg[1].type = "characterData"
  /\ probe.arg[2] = [ type |-> "attributes", attributeName |-> "aria-invalid" ]
  /\ probe.out.rescheduled
  /\ timer
  /\ index = 0

\* the checked, unchecked or partially-checked label among the states
C30_CheckLabels(states) ==
  { states[i] : i \in 1..Len(states) } \cap
    { "checked", "unchecked", "partially checked" }

\* C30: the phrase of a node of role checkbox, radio or switch that carries
\* a checked, unchecked or partially-checked state begins with that state
\* label; the quoted name, the role label and the rest follow it.
C30_CheckStateLeads ==
  LET node == probe.out.node
      labels == C30_CheckLabels(node.states)
      rest == formatAnnouncement(
                [node EXCEPT !.states =
                   SelectSeq(node.states, LAMBDA s : s \notin labels)],
                CheckProps(probe.arg.el))
  IN  ( /\ probe.done
        /\ node.role \in { "checkbox", "radio", "radio button", "switch" }
        /\ labels # {} )
      => \E l \in labels : probe.out.phrase = l \o ", " \o rest

\* the phrase whose remaining-states part lists every state label but
\* "invalid" and the one label that leads the phrase
C31_Phrase(node, el) ==
  LET lead == C16_Part(1, node, el)
      leadAt == IF lead = "" THEN 0
                ELSE CHOOSE i \in 1..Len(node.states) :
                       /\ node.states[i] = lead
                       /\ \A j \in 1..(i - 1) : node.states[j] # lead
      kept == { i \in 1..Len(node.states) :
                  node.states[i] # "invalid" /\ i # leadAt }
      remaining == SelectSeq([ i \in 1..Len(node.states) |->
                                 IF i \in kept THEN node.states[i] ELSE "" ],
                             LAMBDA s : s # "")
      parts == [ k \in 1..8 |->
                   IF k = 7 THEN JoinParts(remaining)
                   ELSE C16_Part(k, node, el) ]
  IN  JoinParts(SelectSeq(parts, LAMBDA p : p # ""))

\* C31: every state label of a node but "invalid" appears in its phrase
\* exactly once: a label is missing from the remaining-states part only if
\* it is the leading check state, so a check label on a node whose role is
\* not checkable is announced among the remaining states.
C31_EveryStateAnnouncedOnce ==
  probe.done => probe.out = C31_Phrase(probe.arg.node, probe.arg.el)

\* C32: with a numeric aria-valuenow and no aria-valuetext the value is
\* round((now - min) / (max - min) * 100) followed by "%" exactly when the
\* role is progressbar and the authored range has max > min (an absent
\* limit counts as its default, 0 or 100); with max <= min, or the role
\* slider or spinbutton, it is the bare current value.
C32_PercentOnlyForValidRange ==
  LET el == probe.arg
      min == IF el.min = "null" THEN 0 ELSE NumberOf(el.min)
      max == IF el.max = "null" THEN 100 ELSE NumberOf(el.max)
      now == NumberOf(el.now)
  IN  ( /\ probe.done
        /\ el.valueText = "null"
        /\ el.now # "null"
        /\ el.role \in { "progressbar", "slider", "spinbutton" } )
      => probe.out =
           IF el.role = "progressbar" /\ max > min
           THEN ToString(RoundPercent(now - min, max - min)) \o "%"
           ELSE el.now

\* C33: every node of a snapshot has a non-empty role and is reportable (its
\* role is no bare generic, presentation or none role, or its element is
\* focusable, or the role is self-contained); it carries a name, a value, a
\* state, focusability, a self-contained role or a structural position; and
\* the role "statictext" is given only to elements that are not focusable.
C33_NodesReportable ==
  (probe.done /\ probe.out # << >>) =>
    LET node == probe.out[1]
        selfContained ==
          node.role \in { "img", "image", "figure", "separator", "hr" }
    IN  /\ node.role # ""
        /\ \/ node.role \notin { "generic", "presentation", "none" }
           \/ probe.arg.focusable
           \/ selfContained
        /\ \/ node.name # ""
           \/ node.value # ""
           \/ node.states # << >>
           \/ probe.arg.focusable
           \/ selfContained
           \/ node.pos
        /\ node.role = "statictext" => ~probe.arg.focusable

\* C34: the engine is Idle exactly when it has no snapshot: whenever the
\* snapshot is empty the cursor is -1, and a move, a seek or a rebuild that
\* ends with a non-empty snapshot ends with the cursor unset or on a node
\* of it.
C34_IdleWithoutSnapshot ==
  /\ [](nodes = << >> => index = NoIndex)
  /\ [][ ( /\ \/ \E i \in MoveArgs : MoveTo(i)
              \/ \E f \in BOOLEAN, k \in SeekKinds : Seek(f, k)
              \/ RebuildTimer
           /\ enabled
           /\ nodes' # << >> )
         => (index' = NoIndex \/ HasNode(nodes', index'))
       ]_vars

\* C35: a content-changing keystroke (a printable key, Backspace, Delete) in
\* an editable field cancels the pending full-value announcement and
\* schedules one, so that keystrokes less than 1000 ms apart end in exactly
\* one announcement, 1000 ms after the last; a caret-only key (ArrowLeft,
\* ArrowRight) neither schedules nor resets it; no keystroke handled in an
\* editable field changes the cursor.
C35_OneValueAnnouncementPerBurst ==
  probe.done =>
    /\ IF probe.arg.key \in { "a", " ", "Backspace", "Delete" }
       THEN probe.out.rescheduled /\ probe.out.pending
       ELSE ~probe.out.rescheduled /\ probe.out.pending = probe.arg.pending
    /\ index = NoIndex

\* C36: while the engine stays enabled and the host's mutations come to an
\* end, a snapshot made stale by a mutation is eventually replaced by one
\* built from the document as it then is; and the snapshot only ever
\* changes by being replaced as a whole with such a build.
C36_StaleEventuallyRebuilt ==
  /\ (nodes # collectAccTree(doc, value))
       ~> (nodes = collectAccTree(doc, value))
  /\ [][ nodes' # nodes => nodes' = collectAccTree(doc', value') ]_vars

\* an element was removed and the snapshot in use was built without it
C36_Witness ==
  /\ enabled
  /\ \E e \in Elems : doc[e] = "gone"
  /\ nodes = collectAccTree(doc, value)
  /\ ~timer
  /\ orphans = 0

\* the place of element e in the document: the sort keys of its ancestors
\* and of itself, from the root down; among the children of one element
\* those of its shadow root sort before its light children
RECURSIVE C37_Path(_, _)
C37_Path(t, e) ==
  IF e = 1 THEN << >>
  ELSE Append(C37_Path(t, t.parent[e]),
              (IF t.shadow[e] THEN 0 ELSE MaxElems) + e)

\* p is a proper prefix of q, or sorts before it at the first difference
C37_Precedes(p, q) ==
  \/ Len(p) < Len(q) /\ \A i \in 1..Len(p) : p[i] = q[i]
  \/ \E i \in 1..Min(Len(p), Len(q)) :
       /\ p[i] < q[i]
       /\ \A j \in 1..(i - 1) : p[j] = q[j]

RECURSIVE C37_Exposed(_, _)
C37_Exposed(t, e) ==
  ~t.hidden[e] /\ (e = 1 \/ C37_Exposed(t, t.parent[e]))

\* C37: no element appears twice in a snapshot, and the snapshot is in
\* document pre-order with the content of a shadow tree as a child subtree
\* of its host, so that an element stands at no more than one index.
C37_UniqueInPreOrder ==
  probe.done =>
    LET t == probe.arg
        s == probe.out
    IN  /\ \A i, j \in 1..Len(s) : s[i] = s[j] => i = j
        /\ \A i, j \in 1..Len(s) :
             i < j => C37_Precedes(C37_Path(t, s[i]), C37_Path(t, s[j]))
        /\ { s[i] : i \in 1..Len(s) } = { e \in Elems : C37_Exposed(t, e) }

\* a host with a shadow child and a light child was walked: host, shadow
\* child, light child
C37_Witness ==
  /\ probe.done
  /\ probe.arg.parent[2] = 1
  /\ ~probe.arg.shadow[2]
  /\ probe.arg.parent[3] = 1
  /\ probe.arg.shadow[3]
  /\ probe.out = << 1, 3, 2 >>

\* C38: while the engine is disabled or the snapshot is empty, moveTo, seek
\* and activateOrFocus leave the cursor, the snapshot, the highlight and
\* the log unchanged and narrate nothing; while it is disabled, escape
\* changes nothing either.
C38_NoOpsWithoutSnapshot ==
  [][ /\ ( /\ ~enabled \/ nodes = << >>
           /\ \/ \E i \in MoveArgs : MoveTo(i)
              \/ \E f \in BOOLEAN, k \in SeekKinds : Seek(f, k)
              \/ ActivateOrFocus )
         => UNCHANGED << index, nodes, ring, log, emitted, speech, doc,
                         active, micro >>
      /\ (~enabled /\ Escape)
         => UNCHANGED << index, nodes, ring, log, emitted, speech, doc,
                         active, timer >>
    ]_vars

\* a call reached the disabled engine, whose cursor and log an earlier
\* session left and whose snapshot a late rebuild stored
C38_Witness ==
  /\ lastOp = Op("other", 0)
  /\ ~enabled
  /\ nodes # << >>
  /\ index = 1
  /\ log # << >>

\* ---------------------------------------------- muting specification
\* The owner toggles muted while the host rewrites its status region, the
\* settle timeouts fire, and the cursor is moved.
NextMute ==
  \/ SetMuted
  \/ \E t \in LiveTexts, c \in BOOLEAN : LiveChange(t, c)
  \/ AlertTimer
  \/ \E i \in MoveArgs : MoveTo(i)
  \/ ClearLog
  \/ RebuildTimer
  \/ OrphanTimer

SpecMute == Init /\ [][NextMute]_vars

\* C39: muting affects only the speech sink: while muted every narration
\* request still puts its phrase into the log in emission order and the
\* cursor moves as it does unmuted, and no utterance is handed to the speech
\* device.
C39_MutedOnlySilencesSpeech ==
  [][ /\ (muted /\ emitted' = emitted + 1) =>
           /\ log' # << >>
           /\ Tail(log') = SubSeq(log, 1, Min(Len(log), LogCap - 1))
           /\ said' = << >>
           /\ speech' = speech
      /\ \A i \in MoveArgs :
           (muted /\ enabled /\ nodes # << >> /\ MoveTo(i)) =>
             index' = Clamp(i, Len(nodes))
    ]_vars

====
